---- MODULE Spec2Model ----
(***************************************************************************)
(* x402-go resource gateway middleware: X402Middleware.Handler together    *)
(* with the bufferedWriter it installs, the gin response writer it wraps   *)
(* and the facilitator client it calls.  One behaviour is one HTTP request *)
(* travelling through the middleware.                                      *)
(*                                                                         *)
(* Bytes are tokens <<key, value>>, key a string and value a sequence of   *)
(* strings: <<"raw", <<"a">>>> is one byte written by the downstream       *)
(* handler, <<"error", <<msg>>>> is one member of a JSON object.           *)
(***************************************************************************)
EXTENDS Integers, Sequences, FiniteSets, TLC

VARIABLES config, request, pc, ctxWriter, writermem, buffered, keys, aborted,
          verifyResp, settleResp, verifyCalls, settleCalls, settled,
          handlerRuns, handlerOps, history, responses, requirements,
          produced

\* The facilitator: its configuration, the request it is serving, the
\* position in the handler, the RPC client pool, the RPC operations
\* performed, the verifier stages run, the HTTP response, the transaction
\* being built and the transactions broadcast.  inboundCancelledAt is the
\* number of RPC operations performed when the request that came in at the
\* gateway, on whose behalf the POST was made, was cancelled (-1: it was not).
\* clockRead is time.Now().Unix() as the time-window stage read it (-1: not
\* read).
VARIABLES fconfig, freq, fpc, rpcClients, rpcLog, stagesRun, fresp, tx, broadcasts,
          inboundCancelledAt, clockRead

gatewayVars == <<config, request, pc, ctxWriter, writermem, buffered, keys, aborted,
                 verifyResp, settleResp, verifyCalls, settleCalls, settled,
                 handlerRuns, handlerOps, history, responses, requirements,
                 produced>>

facVars == <<fconfig, freq, fpc, rpcClients, rpcLog, stagesRun, fresp, tx, broadcasts,
            inboundCancelledAt, clockRead>>

\* The library operations called on their own: which operation, the position
\* in it, and the inputs and results of signing and recovering, of encoding
\* and decoding a header, of generating a payment and of validating a
\* facilitator configuration.
VARIABLES libCall, cpc, signIn, signOut, recovered, payloadIn, encoded, decoded,
          genIn, generated, cfgIn, validated

libVars == <<libCall, cpc, signIn, signOut, recovered, payloadIn, encoded, decoded,
             genIn, generated, cfgIn, validated>>

\* The facilitator serving several requests at once: the goroutines and their
\* positions, the pool of RPC connections (network to connection, 0 for
\* none) with its read-write lock, every connection dialed so far, what the
\* main goroutine has done (DialRPCClients, Close), the remote node as the
\* RPC calls see it, the transactions handed to SendTransaction, and the
\* requests whose 2xx response the gateway has released.
VARIABLES gor, rpcPool, rpcClientsMu, conns, mainOps, node, sends, released

concVars == <<gor, rpcPool, rpcClientsMu, conns, mainOps, node, sends, released>>

vars == <<gatewayVars, facVars, libVars, concVars>>

(***************************************************************************)
(* Bounds of the model.                                                    *)
(***************************************************************************)
MaxBuf == 2
MaxHandlerOps == 3

(***************************************************************************)
(* Small input sets.                                                       *)
(***************************************************************************)
Byte(s) == <<"raw", <<s>>>>
HandlerChunks == { <<Byte("a")>>, <<Byte("a"), Byte("b"), Byte("c")>> }
HandlerStatuses == {201, 404}
HeaderNames == {"Content-Type", "PAYMENT-REQUIRED", "PAYMENT-RESPONSE", "X-Handler"}
InvalidReasons == {"insufficient_funds"}
ErrorReasons == {"gas price too high"}
Paths == { <<"api", "data">>, <<"public">>, <<".well-known", "x402">> }

ItoS(n) == CASE n = 400 -> "400" [] n = 500 -> "500" [] OTHER -> "200"
DecimalDigits == <<"0", "1", "2", "3", "4", "5", "6", "7", "8", "9">>
ItoA(n) == CASE n \in 0..9 -> DecimalDigits[n + 1] [] n = 120 -> "120" [] OTHER -> "0"
AtoI(s) == CASE \E d \in 0..9 : DecimalDigits[d + 1] = s
                  -> CHOOSE d \in 0..9 : DecimalDigits[d + 1] = s
             [] s = "120" -> 120 [] OTHER -> 0

NoHeaders == [h \in HeaderNames |-> <<>>]
Plain(s) == [enc |-> "plain", data |-> <<Byte(s)>>]

(***************************************************************************)
(* encoding/base64 and encoding/json as used by the middleware.            *)
(***************************************************************************)
Base64Encode(data) == [enc |-> "base64", data |-> data]
Base64Decode(h) == IF h.enc = "base64" THEN [ok |-> TRUE, data |-> h.data]
                   ELSE [ok |-> FALSE, data |-> <<>>]

HasKey(data, k) == \E i \in 1..Len(data) : data[i][1] = k
ValuesOf(data, k) == SelectSeq(data, LAMBDA t : t[1] = k)
FirstOf(data, k) == IF HasKey(data, k) THEN ValuesOf(data, k)[1][2] ELSE <<>>

\* types.ResourceInfo; NoResource is the nil pointer.
NoResource == [URL |-> <<>>, Description |-> "", MimeType |-> "", nil |-> TRUE]
ResourceInfo(url, d, m) == [URL |-> url, Description |-> d, MimeType |-> m, nil |-> FALSE]

\* json.Marshal of types.PaymentRequired (omitempty on error and resource).
MarshalPaymentRequired(pr) ==
    <<  <<"x402Version", <<ItoA(pr.X402Version)>>>> >>
    \o (IF pr.Error # "" THEN << <<"error", <<pr.Error>>>> >> ELSE <<>>)
    \o (IF ~pr.Resource.nil
          THEN << <<"resource.url", pr.Resource.URL>> >>
               \o (IF pr.Resource.Description # ""
                     THEN << <<"resource.description", <<pr.Resource.Description>>>> >> ELSE <<>>)
               \o (IF pr.Resource.MimeType # ""
                     THEN << <<"resource.mimeType", <<pr.Resource.MimeType>>>> >> ELSE <<>>)
          ELSE <<>>)
    \o [i \in 1..Len(pr.Accepts) |-> <<"accepts", <<pr.Accepts[i]>>>>]

\* json.Unmarshal into types.PaymentRequired.
UnmarshalPaymentRequired(data) ==
    [ X402Version |-> AtoI(IF HasKey(data, "x402Version") THEN FirstOf(data, "x402Version")[1] ELSE "0"),
      Error       |-> IF HasKey(data, "error") THEN FirstOf(data, "error")[1] ELSE "",
      Resource    |-> IF HasKey(data, "resource.url")
                        THEN ResourceInfo(FirstOf(data, "resource.url"),
                               IF HasKey(data, "resource.description")
                                 THEN FirstOf(data, "resource.description")[1] ELSE "",
                               IF HasKey(data, "resource.mimeType")
                                 THEN FirstOf(data, "resource.mimeType")[1] ELSE "")
                        ELSE NoResource,
      Accepts     |-> LET a == ValuesOf(data, "accepts")
                      IN [i \in 1..Len(a) |-> a[i][2][1]] ]

\* json.Marshal of types.SettleResponse (omitempty on errorReason and payer).
MarshalSettleResponse(r) ==
    <<  <<"success", <<IF r.Success THEN "true" ELSE "false">>>> >>
    \o (IF r.ErrorReason # "" THEN << <<"errorReason", <<r.ErrorReason>>>> >> ELSE <<>>)
    \o (IF r.Payer # "" THEN << <<"payer", <<r.Payer>>>> >> ELSE <<>>)
    \o << <<"transaction", <<r.Transaction>>>>, <<"network", <<r.Network>>>> >>

\* json.Unmarshal into types.SettleResponse.
UnmarshalSettleResponse(data) ==
    [ Success     |-> FirstOf(data, "success") = <<"true">>,
      ErrorReason |-> IF HasKey(data, "errorReason") THEN FirstOf(data, "errorReason")[1] ELSE "",
      Payer       |-> IF HasKey(data, "payer") THEN FirstOf(data, "payer")[1] ELSE "",
      Transaction |-> IF HasKey(data, "transaction") THEN FirstOf(data, "transaction")[1] ELSE "",
      Network     |-> IF HasKey(data, "network") THEN FirstOf(data, "network")[1] ELSE "" ]

\* json.Marshal of gin.H{"error": msg}.
MarshalError(msg) == << <<"error", <<msg>>>> >>

\* json.Marshal of types.PaymentPayload.
MarshalPaymentPayload(p) ==
    << <<"x402Version", <<ItoA(p.X402Version)>>>>, <<"accepted", <<p.Accepted>>>>,
       <<"payload", <<p.Payload>>>> >>

\* A JSON number is its decimal literal.  json.Unmarshal into a map[string]any
\* makes every number a float64, which holds an integer exactly up to 2^53
\* and the nearest multiple of a power of two above.
Numbers == {"7", "1700000000", "9223372036854775807"}
Float64(lit) == CASE lit = "9223372036854775807" -> "9223372036854775808" [] OTHER -> lit

\* types.PaymentPayload member by member: Resource is a pointer, Payload a
\* map[string]any holding the signature and the authorization, Extra and
\* Extensions are maps given by their keys.
Payloads ==
    [ X402Version : {1, 2},
      Resource    : { NoResource, ResourceInfo(<<"https://r">>, "", ""),
                      ResourceInfo(<<"https://r">>, "data", "text/plain") },
      Accepted    : [ Scheme : {"exact"}, Network : {"eip155:8453"}, Amount : {"10"},
                      MaxTimeoutSeconds : {0, 120}, Extra : { <<>>, <<"name", "version">> } ],
      Payload     : [ signature : {"0xsig"}, from : {"0xa11ce"}, value : {"10"},
                      validAfter : {"7"}, validBefore : Numbers ],
      Extensions  : { <<>>, <<"bazaar">> } ]

\* json.Marshal of types.PaymentPayload (omitempty on resource, extra and
\* extensions)
MarshalPayload(p) ==
    << <<"x402Version", <<ItoA(p.X402Version)>>>> >>
    \o (IF ~p.Resource.nil
          THEN << <<"resource.url", p.Resource.URL>> >>
               \o (IF p.Resource.Description # ""
                     THEN << <<"resource.description", <<p.Resource.Description>>>> >> ELSE <<>>)
               \o (IF p.Resource.MimeType # ""
                     THEN << <<"resource.mimeType", <<p.Resource.MimeType>>>> >> ELSE <<>>)
          ELSE <<>>)
    \o << <<"accepted.scheme", <<p.Accepted.Scheme>>>>,
           <<"accepted.network", <<p.Accepted.Network>>>>,
           <<"accepted.amount", <<p.Accepted.Amount>>>>,
           <<"accepted.maxTimeoutSeconds", <<ItoA(p.Accepted.MaxTimeoutSeconds)>>>> >>
    \o (IF p.Accepted.Extra # <<>> THEN << <<"accepted.extra", p.Accepted.Extra>> >> ELSE <<>>)
    \o << <<"payload.signature", <<p.Payload.signature>>>>,
           <<"payload.authorization.from", <<p.Payload.from>>>>,
           <<"payload.authorization.value", <<p.Payload.value>>>>,
           <<"payload.authorization.validAfter", <<p.Payload.validAfter>>>>,
           <<"payload.authorization.validBefore", <<p.Payload.validBefore>>>> >>
    \o (IF p.Extensions # <<>> THEN << <<"extensions", p.Extensions>> >> ELSE <<>>)

\* json.Unmarshal into types.PaymentPayload
UnmarshalPayload(data) ==
    [ X402Version |-> AtoI(FirstOf(data, "x402Version")[1]),
      Resource    |-> IF HasKey(data, "resource.url")
                        THEN ResourceInfo(FirstOf(data, "resource.url"),
                               IF HasKey(data, "resource.description")
                                 THEN FirstOf(data, "resource.description")[1] ELSE "",
                               IF HasKey(data, "resource.mimeType")
                                 THEN FirstOf(data, "resource.mimeType")[1] ELSE "")
                        ELSE NoResource,
      Accepted    |-> [ Scheme |-> FirstOf(data, "accepted.scheme")[1],
                        Network |-> FirstOf(data, "accepted.network")[1],
                        Amount |-> FirstOf(data, "accepted.amount")[1],
                        MaxTimeoutSeconds |-> AtoI(FirstOf(data, "accepted.maxTimeoutSeconds")[1]),
                        Extra |-> FirstOf(data, "accepted.extra") ],
      Payload     |-> [ signature |-> FirstOf(data, "payload.signature")[1],
                        from |-> FirstOf(data, "payload.authorization.from")[1],
                        value |-> FirstOf(data, "payload.authorization.value")[1],
                        validAfter |-> Float64(FirstOf(data, "payload.authorization.validAfter")[1]),
                        validBefore |-> Float64(FirstOf(data, "payload.authorization.validBefore")[1]) ],
      Extensions  |-> FirstOf(data, "extensions") ]

\* the header decoded from base64 and not parsed as JSON
DecodePaymentHeaderUnparsed(header) ==
    LET d == Base64Decode(header) IN
    IF ~d.ok THEN [err |-> "invalid base64", payload |-> <<>>]
    ELSE [err |-> "", payload |-> d.data]

\* utils.DecodePaymentHeader: base64, then JSON.
DecodePaymentHeader(header) ==
    LET d == Base64Decode(header) IN
    IF ~d.ok THEN [err |-> "invalid base64", payload |-> <<>>]
    ELSE IF HasKey(d.data, "raw") \/ d.data = <<>>
           THEN [err |-> "invalid JSON", payload |-> <<>>]
           ELSE [err |-> "", payload |-> d.data]

EmptyHeader == [enc |-> "plain", data |-> <<>>]
PaymentHeaders ==
    { EmptyHeader,
      Plain("!"),
      Base64Encode(<<Byte("{")>>),
      Base64Encode(MarshalPaymentPayload(
          [X402Version |-> 2, Accepted |-> "reqDefault", Payload |-> "auth1"])),
      Base64Encode(MarshalPaymentPayload(
          [X402Version |-> 2, Accepted |-> "reqDefault", Payload |-> "sig64"])),
      Base64Encode(MarshalPaymentPayload(
          [X402Version |-> 2, Accepted |-> "reqDefault", Payload |-> "nonce31"])) }

(***************************************************************************)
(* MiddlewareConfig.                                                       *)
(***************************************************************************)
GetPaymentHeaderName(c) ==
    IF c.PaymentHeaderName = "" THEN "PAYMENT-SIGNATURE" ELSE c.PaymentHeaderName

\* path/filepath.Match on paths and patterns split at the separator: "*"
\* matches one whole segment, "[" is an unterminated character class.
Match(pattern, path) ==
    IF \E i \in 1..Len(pattern) : pattern[i] = "["
      THEN [matched |-> FALSE, err |-> TRUE]
      ELSE [matched |-> Len(pattern) = Len(path)
                        /\ \A i \in 1..Len(pattern) :
                              pattern[i] = "*" \/ pattern[i] = path[i],
            err |-> FALSE]

\* the protected test giving up at the first malformed pattern
isProtectedPathUntilMalformed(c, path) ==
    \E i \in 1..Len(c.ProtectedPaths) :
        /\ Match(c.ProtectedPaths[i], path).matched
        /\ \A j \in 1..i : ~Match(c.ProtectedPaths[j], path).err

\* X402Middleware.isProtectedPath
isProtectedPath(c, path) ==
    \E i \in 1..Len(c.ProtectedPaths) :
        LET m == Match(c.ProtectedPaths[i], path) IN ~m.err /\ m.matched

\* RouteRequirements is a Go map: a set of <<key, requirements>> pairs with
\* distinct keys; ranging over it visits the keys in an unspecified order.
RouteKeys(c) == { kv[1] : kv \in c.RouteRequirements }
RouteValue(c, k) == (CHOOSE kv \in c.RouteRequirements : kv[1] = k)[2]

\* The set of values getRequirements may return for path.
getRequirements(c, path) ==
    IF path \in RouteKeys(c) THEN { RouteValue(c, path) }
    ELSE LET hits == { k \in RouteKeys(c) :
                          LET m == Match(k, path) IN ~m.err /\ m.matched }
         IN IF hits # {} THEN { RouteValue(c, k) : k \in hits }
            ELSE { c.DefaultRequirements }

\* The discovery fields are varied with discovery enabled, and the empty list
\* of protected paths is taken, on one setting of the other fields.
Configs ==
    { c \in
        [ MaxBufferSize       : {0, MaxBuf},
          DiscoveryEnabled    : BOOLEAN,
          OwnershipProofs     : { <<>>, <<"0xproof">> },
          Instructions        : { "", "pay with x402" },
          ProtectedPaths      : { <<>>, << <<"api", "*">> >>,
                                  << <<"[">>, <<"api", "data">>, <<".well-known", "*">> >> },
          RouteRequirements   : { {}, { << <<"api", "data">>, "reqRoute" >> },
                                  { << <<"api", "*">>, "reqGlobA" >>,
                                    << <<"*", "data">>, "reqGlobB" >> } },
          RouteResources      : { {}, { <<"api", "data">> } },
          DefaultRequirements : {"reqDefault"},
          PaymentHeaderName   : {"", "X-PAYMENT"} ] :
        /\ (c.OwnershipProofs # <<>> \/ c.Instructions # "")
             => /\ c.DiscoveryEnabled /\ c.MaxBufferSize = 0
                /\ c.RouteRequirements = {} /\ c.RouteResources = {}
                /\ c.PaymentHeaderName = ""
        /\ c.ProtectedPaths = <<>>
             => /\ c.MaxBufferSize = 0 /\ c.OwnershipProofs = <<>> /\ c.Instructions = ""
                /\ c.RouteRequirements = {} /\ c.RouteResources = {}
                /\ c.PaymentHeaderName = "" }

Requests == [ path : Paths, paymentHeader : PaymentHeaders ]

(***************************************************************************)
(* gin's responseWriter (ctx.writermem), the writer the bufferedWriter     *)
(* embeds.  sent is what has reached the client connection; sent.status 0  *)
(* means that no status line has been written yet.                         *)
(***************************************************************************)
NothingSent == [status |-> 0, header |-> NoHeaders, body |-> <<>>]
NewResponseWriter ==
    [status |-> 200, written |-> FALSE, header |-> NoHeaders, sent |-> NothingSent]

MemWriteHeader(m, code) ==
    IF code > 0 /\ m.status # code /\ ~m.written THEN [m EXCEPT !.status = code] ELSE m

MemWriteHeaderNow(m) ==
    IF ~m.written
      THEN [m EXCEPT !.written = TRUE, !.sent.status = m.status, !.sent.header = m.header]
      ELSE m

MemWrite(m, data) ==
    LET n == MemWriteHeaderNow(m) IN [n EXCEPT !.sent.body = @ \o data]

(***************************************************************************)
(* bufferedWriter.                                                         *)
(***************************************************************************)
newBufferedWriter(maxSize) ==
    [body |-> <<>>, status |-> 200, header |-> NoHeaders, maxSize |-> maxSize,
     overflow |-> FALSE]

NoBuffer == [body |-> <<>>, status |-> 0, header |-> NoHeaders, maxSize |-> 0,
             overflow |-> FALSE]

\* a write past the ceiling that keeps the bytes that still fit
BufWriteKeepsWhatFits(w, data) ==
    IF w.maxSize > 0 /\ Len(w.body) + Len(data) > w.maxSize
      THEN [w EXCEPT !.overflow = TRUE,
                     !.body = @ \o SubSeq(data, 1, w.maxSize - Len(w.body))]
      ELSE [w EXCEPT !.body = @ \o data]

\* bufferedWriter.Write
BufWrite(w, data) ==
    IF w.maxSize > 0 /\ Len(w.body) + Len(data) > w.maxSize
      THEN [w EXCEPT !.overflow = TRUE]
      ELSE [w EXCEPT !.body = @ \o data]

BufWriteHeader(w, status) == [w EXCEPT !.status = status]

\* flush: copy the buffered headers, then status and body, to the embedded writer.
flush(w, m) ==
    LET copied == [m EXCEPT !.header = [h \in HeaderNames |-> m.header[h] \o w.header[h]]]
    IN  MemWrite(MemWriteHeader(copied, w.status), w.body)

(***************************************************************************)
(* gin.Context operations, applied to whatever ctx.Writer currently is.    *)
(* W is the pair [mem, buf] of the two writers.                            *)
(***************************************************************************)
Writers == [mem |-> writermem, buf |-> buffered]

\* ctx.Header(k, v): ctx.Writer.Header().Set(k, v)
CtxHeader(W, target, k, v) ==
    IF target = "buffered"
      THEN [W EXCEPT !.buf.header[k] = <<v>>]
      ELSE [W EXCEPT !.mem.header[k] = <<v>>]

\* ctx.JSON(code, obj): WriteHeader(code), Content-Type unless set, Write(body)
CtxJSON(W, target, code, data) ==
    IF target = "buffered"
      THEN LET a == BufWriteHeader(W.buf, code)
               b == IF a.header["Content-Type"] = <<>>
                      THEN [a EXCEPT !.header["Content-Type"] = <<Plain("application/json")>>]
                      ELSE a
           IN [W EXCEPT !.buf = BufWrite(b, data)]
      ELSE LET a == MemWriteHeader(W.mem, code)
               b == IF a.header["Content-Type"] = <<>>
                      THEN [a EXCEPT !.header["Content-Type"] = <<Plain("application/json")>>]
                      ELSE a
           IN [W EXCEPT !.mem = MemWrite(b, data)]

\* setPaymentRequiredHeader
setPaymentRequiredHeader(W, target, response) ==
    CtxHeader(W, target, "PAYMENT-REQUIRED", Base64Encode(MarshalPaymentRequired(response)))

\* setPaymentResponseHeader
setPaymentResponseHeader(W, target, response) ==
    CtxHeader(W, target, "PAYMENT-RESPONSE", Base64Encode(MarshalSettleResponse(response)))

\* The first moment anything reaches the client is recorded in history.
Wire(W) == IF ~writermem.written /\ W.mem.written THEN <<"wire">> ELSE <<>>

\* One response the middleware itself produced with ctx.JSON.
Response(W, target, code, data) ==
    [status |-> code, body |-> data, target |-> target,
     header |-> IF target = "buffered" THEN W.buf.header ELSE W.mem.header]

NoVerifyResp == [err |-> "", IsValid |-> FALSE, InvalidReason |-> "", Payer |-> ""]
NoSettleResp == [err |-> "", Success |-> FALSE, ErrorReason |-> "", Payer |-> "",
                 Transaction |-> "", Network |-> ""]

(***************************************************************************)
(* The facilitator client.  An answer is what comes back for one POST:     *)
(* delivered is false when the exchange failed (connection refused, reset, *)
(* answer lost), decodable is false when the body is not the expected JSON.*)
(***************************************************************************)
VerifyAnswers ==
    { [delivered |-> FALSE, status |-> 0,   decodable |-> FALSE, resp |-> NoVerifyResp],
      [delivered |-> TRUE,  status |-> 500, decodable |-> TRUE,  resp |-> NoVerifyResp],
      [delivered |-> TRUE,  status |-> 400, decodable |-> TRUE,  resp |-> NoVerifyResp],
      [delivered |-> TRUE,  status |-> 200, decodable |-> FALSE, resp |-> NoVerifyResp],
      [delivered |-> TRUE,  status |-> 200, decodable |-> TRUE,
       resp |-> [NoVerifyResp EXCEPT !.IsValid = TRUE, !.Payer = "0xpayer"]] }
    \cup { [delivered |-> TRUE, status |-> 200, decodable |-> TRUE,
            resp |-> [NoVerifyResp EXCEPT !.InvalidReason = reason]] : reason \in InvalidReasons }

SettleOK == [NoSettleResp EXCEPT !.Success = TRUE, !.Payer = "0xpayer",
                                 !.Transaction = "0xtx", !.Network = "eip155:8453"]

\* resp is what the facilitator itself concluded, whether or not it arrives.
SettleAnswers ==
    { [delivered |-> FALSE, status |-> 0,   decodable |-> FALSE, resp |-> NoSettleResp],
      [delivered |-> FALSE, status |-> 0,   decodable |-> FALSE, resp |-> SettleOK],
      [delivered |-> TRUE,  status |-> 500, decodable |-> TRUE,  resp |-> NoSettleResp],
      [delivered |-> TRUE,  status |-> 400, decodable |-> TRUE,  resp |-> NoSettleResp],
      [delivered |-> TRUE,  status |-> 200, decodable |-> FALSE, resp |-> SettleOK],
      [delivered |-> TRUE,  status |-> 200, decodable |-> TRUE,  resp |-> SettleOK] }
    \cup { [delivered |-> TRUE, status |-> 200, decodable |-> TRUE,
            resp |-> [NoSettleResp EXCEPT !.ErrorReason = reason]] : reason \in ErrorReasons }

\* Client.Verify
Verify(a) ==
    IF ~a.delivered THEN [NoVerifyResp EXCEPT !.err = "failed to send request"]
    ELSE IF a.status # 200
      THEN [NoVerifyResp EXCEPT !.err = "unexpected status code: " \o ItoS(a.status)]
    ELSE IF ~a.decodable THEN [NoVerifyResp EXCEPT !.err = "failed to decode response"]
    ELSE a.resp

\* Client.Settle
Settle(a) ==
    IF ~a.delivered THEN [NoSettleResp EXCEPT !.err = "failed to send request"]
    ELSE IF a.status # 200
      THEN [NoSettleResp EXCEPT !.err = "unexpected status code: " \o ItoS(a.status)]
    ELSE IF ~a.decodable THEN [NoSettleResp EXCEPT !.err = "failed to decode response"]
    ELSE a.resp

(***************************************************************************)
(* The facilitator: handleVerify and handleSettle, the six verifier stages *)
(* and the settler.  One behaviour of FacSpec is one POST to /verify or    *)
(* /settle.  A reason is a sequence of strings, one per wrapped error.     *)
(***************************************************************************)
\* An address string is <<hex digits in lower case, spelling>>.
Alice == <<"a11ce", "lower">>
Mallory == <<"ba11", "lower">>
Merchant == <<"5e11e4", "lower">>
MerchantChecksum == <<"5e11e4", "checksum">>
Usdc == <<"05dc", "lower">>
OtherContract == <<"0bad", "lower">>

\* common.HexToAddress: the 20 bytes, whatever the spelling
HexToAddress(s) == s[1]

\* new(big.Int).SetString(s, 10)
SetString(s) ==
    CASE s = "0" -> [ok |-> TRUE, val |-> 0]
      [] s = "9" -> [ok |-> TRUE, val |-> 9]
      [] s = "10" -> [ok |-> TRUE, val |-> 10]
      [] s = "11" -> [ok |-> TRUE, val |-> 11]
      [] s = "-1" -> [ok |-> TRUE, val |-> 0 - 1]
      [] s = "1" -> [ok |-> TRUE, val |-> 1]
      [] s = "8453" -> [ok |-> TRUE, val |-> 8453]
      [] OTHER -> [ok |-> FALSE, val |-> 0]

\* utils.GetChainID: CAIP-2 "namespace:reference", reference a decimal integer
GetChainID(network) ==
    CASE network = "eip155:8453" -> [err |-> <<>>, id |-> 8453]
      [] network = "eip155:1" -> [err |-> <<>>, id |-> 1]
      [] network = "eip155:10" -> [err |-> <<>>, id |-> 10]
      [] network = "base" -> [err |-> <<"invalid CAIP-2 network string">>, id |-> 0]
      [] OTHER -> [err |-> <<"failed to parse CAIP-2 network string">>, id |-> 0]

\* types.ExactEVMSchemeAuthorization
NoAuth == [From |-> <<"", "lower">>, To |-> <<"", "lower">>, Value |-> "",
           ValidAfter |-> 0, ValidBefore |-> 0, Nonce |-> [hex |-> TRUE, len |-> 0]]
BaseAuth == [From |-> Alice, To |-> Merchant, Value |-> "10",
             ValidAfter |-> 5, ValidBefore |-> 7, Nonce |-> [hex |-> TRUE, len |-> 32]]

\* types.PaymentRequirements
BaseRequirements ==
    [Scheme |-> "exact", Network |-> "eip155:8453", Amount |-> "10", Asset |-> Usdc,
     PayTo |-> Merchant, Extra |-> [name |-> "USD Coin", version |-> "2"]]

\* utils.BuildEIP712TypedData: what the EIP-712 digest is computed from
BuildEIP712TypedData(a, r) ==
    IF GetChainID(r.Network).err # <<>>
      THEN [err |-> <<"failed to parse chain id">> \o GetChainID(r.Network).err,
            data |-> <<>>]
    ELSE IF r.Extra.name = ""
      THEN [err |-> <<"missing EIP712 Domain name in extra field">>, data |-> <<>>]
    ELSE IF r.Extra.version = ""
      THEN [err |-> <<"missing EIP712 Domain version in extra field">>, data |-> <<>>]
    ELSE [err |-> <<>>,
          data |-> << r.Extra.name, r.Extra.version, GetChainID(r.Network).id,
                      HexToAddress(r.Asset), HexToAddress(a.From), HexToAddress(a.To),
                      SetString(a.Value).val, a.ValidAfter, a.ValidBefore, a.Nonce >>]

\* big.Int.Bytes and common.LeftPadBytes: the magnitude of n in a 32-byte word
Magnitude(n) == IF n < 0 THEN 0 - n ELSE n

\* A 32-byte word holding a nonce: the number of bytes given and the side
\* they were padded on.
NonceWord(n, pad) == [len |-> n.len, pad |-> IF n.len = 32 THEN "none" ELSE pad]

\* The words apitypes.TypedData.HashStruct hashes for the domain and the
\* message: a bytes32 member is laid out from the left.
EIP712Words(data) ==
    IF data = <<>> THEN <<>> ELSE [data EXCEPT ![10] = NonceWord(@, "right")]

\* apitypes.TypedData.HashStruct: a uint256 member must not be negative and a
\* bytes32 member must be hexadecimal and exactly 32 bytes long.
HashStruct(data) ==
    IF data[7] < 0 \/ data[8] < 0 \/ data[9] < 0
      THEN [err |-> <<"invalid value for type uint256">>, words |-> <<>>]
    ELSE IF ~data[10].hex \/ data[10].len # 32
      THEN [err |-> <<"invalid value for type bytes32">>, words |-> <<>>]
    ELSE [err |-> <<>>, words |-> EIP712Words(data)]

\* A signature string: hex is whether it is hexadecimal, len its length in
\* bytes, signer the address of the key that made it and signed the words
\* whose hash it was made over.  present is false for a missing or empty
\* member.
NoSignature == [present |-> FALSE, hex |-> FALSE, len |-> 0, signer |-> "", signed |-> <<>>]

\* A signature of key over the EIP-712 digest the verifier computes for a and r
Sign(key, a, r) ==
    [present |-> TRUE, hex |-> TRUE, len |-> 65, signer |-> HexToAddress(key),
     signed |-> EIP712Words(BuildEIP712TypedData(a, r).data)]

\* utils.SignEIP3009: the digest is built by hand, every number through
\* big.Int.Bytes and the nonce copied to the right end of the word.
SignEIP3009(a, key, asset, domainName, domainVersion, chainID) ==
    IF ~SetString(a.Value).ok THEN [err |-> <<"invalid value">>, sig |-> NoSignature]
    ELSE IF ~a.Nonce.hex THEN [err |-> <<"invalid nonce">>, sig |-> NoSignature]
    ELSE IF a.Nonce.len > 32
      THEN [err |-> <<"panic: slice bounds out of range">>, sig |-> NoSignature]
    ELSE [err |-> <<>>,
          sig |-> [present |-> TRUE, hex |-> TRUE, len |-> 65,
                   signer |-> HexToAddress(key),
                   signed |-> << domainName, domainVersion, Magnitude(chainID),
                                 HexToAddress(asset), HexToAddress(a.From),
                                 HexToAddress(a.To), Magnitude(SetString(a.Value).val),
                                 Magnitude(a.ValidAfter), Magnitude(a.ValidBefore),
                                 NonceWord(a.Nonce, "left") >>]]

\* crypto.SigToPub and crypto.PubkeyToAddress: the signer for the words the
\* signature was made over, an unrelated address for any other words.
Recover(sig, data) == IF sig.signed = data THEN sig.signer ELSE "unrelated"

\* verifySignature, steps 2 to 6: the address recovered from the signature
recoveredAddr(a, sig, r) ==
    LET typed == BuildEIP712TypedData(a, r) IN
    IF typed.err # <<>>
      THEN [err |-> <<"failed to hash domain">> \o typed.err, addr |-> ""]
    ELSE IF HashStruct(typed.data).err # <<>>
      THEN [err |-> <<"failed to hash message">> \o HashStruct(typed.data).err, addr |-> ""]
    ELSE [err |-> <<>>, addr |-> Recover(sig, HashStruct(typed.data).words)]

\* utils.ExtractVRS
ExtractVRS(sig) ==
    IF ~sig.hex THEN <<"invalid signature format">>
    ELSE IF sig.len # 65 THEN <<"invalid signature length: expected 65">>
    ELSE <<>>

\* FacilitatorConfig after Validate: every supported network is configured.
FacConfigs ==
    [ Supported   : { { <<"exact", "eip155:8453">> } },
      Networks    : { {"eip155:8453"}, {"eip155:8453", "eip155:1"} },
      MaxGasPrice : {"10", "bad"} ]
    \cup
    [ Supported   : { { <<"exact", "eip155:8453">>, <<"exact", "eip155:1">> } },
      Networks    : { {"eip155:8453", "eip155:1"} },
      MaxGasPrice : {"10"} ]

\* the supported test on the scheme alone
IsSupportedSchemeOnly(c, scheme, network) == \E kind \in c.Supported : kind[1] = scheme

\* FacilitatorConfig.IsSupported
IsSupported(c, scheme, network) == <<scheme, network>> \in c.Supported

\* FacilitatorConfig.GetNetworkConfig
GetNetworkConfig(c, network) ==
    IF network \in c.Networks THEN <<>> ELSE <<"network not configured">>

\* The members of a request that the inputs vary, and their usual values.
Usual ==
    [ accepted  |-> <<"exact", "eip155:8453">>, signature |-> "ok",
      hasAuth   |-> TRUE,    To        |-> Merchant,
      Value     |-> "10",    Nonce     |-> [hex |-> TRUE, len |-> 32],
      Scheme    |-> "exact", Network   |-> "eip155:8453",
      Amount    |-> "10",    Asset     |-> Usdc,
      name      |-> "USD Coin", PayTo  |-> Merchant ]

Choices ==
    [ accepted  : { <<"exact", "eip155:8453">>, <<"exact", "eip155:1">>,
                    <<"upto", "eip155:8453">> },
      signature : { "ok", "forged", "stale", "short", "missing", "nothex" },
      hasAuth   : BOOLEAN,
      To        : { Merchant, MerchantChecksum, Mallory },
      Value     : { "10", "9", "11", "x" },
      Nonce     : { [hex |-> TRUE, len |-> 32], [hex |-> TRUE, len |-> 31],
                    [hex |-> FALSE, len |-> 0] },
      Scheme    : { "exact", "upto" },
      Network   : { "eip155:8453", "eip155:1", "eip155:10" },
      Amount    : { "10", "bad" },
      Asset     : { Usdc, OtherContract },
      name      : { "USD Coin", "" },
      PayTo     : { Merchant } ]

\* MaxUnusual bounds how many members of one request differ from Usual.
MaxUnusual == 2
Unusual(c) == { f \in DOMAIN Usual : c[f] # Usual[f] }

RequirementsOf(c) ==
    [Scheme |-> c.Scheme, Network |-> c.Network, Amount |-> c.Amount, Asset |-> c.Asset,
     PayTo |-> c.PayTo, Extra |-> [name |-> c.name, version |-> "2"]]

AuthorizationOf(c) ==
    [From |-> Alice, To |-> c.To, Value |-> c.Value, ValidAfter |-> 5,
     ValidBefore |-> 7, Nonce |-> c.Nonce]

SignatureOf(c) ==
    CASE c.signature = "ok" -> Sign(Alice, AuthorizationOf(c), RequirementsOf(c))
      [] c.signature = "forged" -> Sign(Mallory, AuthorizationOf(c), RequirementsOf(c))
      [] c.signature = "stale" -> Sign(Alice, NoAuth, RequirementsOf(c))
      [] c.signature = "short" ->
           [Sign(Alice, AuthorizationOf(c), RequirementsOf(c)) EXCEPT !.len = 64]
      [] c.signature = "nothex" ->
           [Sign(Alice, AuthorizationOf(c), RequirementsOf(c)) EXCEPT !.hex = FALSE]
      [] OTHER -> NoSignature

\* types.PaymentPayload as the facilitator reads it
PaymentPayloadOf(c) ==
    [ Accepted |-> [Scheme |-> c.accepted[1], Network |-> c.accepted[2]],
      Payload  |-> [ signature |-> SignatureOf(c), hasAuthorization |-> c.hasAuth,
                     authorization |-> IF c.hasAuth THEN AuthorizationOf(c) ELSE NoAuth ] ]

\* A POST to the facilitator.  body tells what ShouldBindJSON makes of it:
\* "syntax error" is not JSON, "wrong type" is JSON whose members do not have
\* the types of the request struct, "object" binds.
FacRequests ==
    { [endpoint |-> e, body |-> "object", paymentPayload |-> PaymentPayloadOf(c),
       paymentRequirements |-> RequirementsOf(c)] :
        e \in {"verify", "settle"},
        c \in { d \in Choices : Cardinality(Unusual(d)) <= MaxUnusual } }
    \cup
    { [endpoint |-> e, body |-> b, paymentPayload |-> PaymentPayloadOf(Usual),
       paymentRequirements |-> RequirementsOf(Usual)] :
        e \in {"verify", "settle"}, b \in {"syntax error", "wrong type"} }

\* utils.ExtractExactAuthorization
ExtractExactAuthorization(payload) ==
    IF ~payload.Payload.hasAuthorization THEN <<"missing authorization">> ELSE <<>>

\* verifyPayment and the entry of verifyExactScheme
verifyPayment(payload) ==
    IF payload.Accepted.Scheme # "exact" THEN <<"unsupported scheme">>
    ELSE IF ~payload.Payload.signature.present THEN <<"missing signature">>
    ELSE IF ExtractExactAuthorization(payload) # <<>>
      THEN <<"invalid authorization">> \o ExtractExactAuthorization(payload)
    ELSE <<>>

\* Stage 1, verifySignature
verifySignature(a, payload, r) ==
    LET sig == payload.Payload.signature
    IN IF ~sig.present THEN <<"missing signature">>
       ELSE IF ~sig.hex THEN <<"invalid signature format">>
       ELSE IF sig.len # 65 THEN <<"invalid signature length: expected 65">>
       ELSE IF recoveredAddr(a, sig, r).err # <<>> THEN recoveredAddr(a, sig, r).err
       ELSE IF recoveredAddr(a, sig, r).addr # HexToAddress(a.From)
         THEN <<"signature mismatch">>
       ELSE <<>>

\* the amount test with the comparison turned round
verifyAmountTurnedRound(a, r) ==
    IF ~SetString(a.Value).ok THEN <<"invalid payment amount format">>
    ELSE IF ~SetString(r.Amount).ok THEN <<"invalid required amount format">>
    ELSE IF SetString(a.Value).val > SetString(r.Amount).val THEN <<"insufficient amount">>
    ELSE <<>>

\* Stage 3, verifyAmount
verifyAmount(a, r) ==
    IF ~SetString(a.Value).ok THEN <<"invalid payment amount format">>
    ELSE IF ~SetString(r.Amount).ok THEN <<"invalid required amount format">>
    ELSE IF SetString(a.Value).val < SetString(r.Amount).val THEN <<"insufficient amount">>
    ELSE <<>>

\* Stage 5, verifyParameters: auth.To != requirements.PayTo on the strings
verifyParameters(a, r) == IF a.To # r.PayTo THEN <<"recipient mismatch">> ELSE <<>>

\* What the token contract at asset does with transferWithAuthorization: an
\* EIP-3009 token executes it only for a signature of a.From over its own
\* domain and a nonce of 32 bytes; any other contract may do anything.
TokenMayExecute(a, sig, r) ==
    \/ r.Asset # Usdc
    \/ /\ recoveredAddr(a, sig, r).err = <<>>
       /\ recoveredAddr(a, sig, r).addr = HexToAddress(a.From)
       /\ a.Nonce.len = 32
       /\ SetString(a.Value).ok /\ SetString(a.Value).val >= 0

\* Stage 6, simulateTransaction: outcome is the answer to the eth_call
simulateTransaction(a, sig, client, outcome) ==
    IF client.err # <<>> THEN <<"failed to connect to network">> \o client.err
    ELSE IF ExtractVRS(sig) # <<>>
      THEN <<"failed to extract signature components">> \o ExtractVRS(sig)
    ELSE IF ~a.Nonce.hex THEN <<"invalid nonce format">>
    ELSE IF outcome # "ok" THEN <<"transaction would fail">>
    ELSE <<>>

\* The payloads a payment header of the gateway model may carry.
PayloadContents(name) ==
    PaymentPayloadOf(
        CASE name = "sig64" -> [Usual EXCEPT !.signature = "short"]
          [] name = "nonce31" -> [Usual EXCEPT !.Nonce = [hex |-> TRUE, len |-> 31]]
          [] OTHER -> Usual)

\* Whether verifyExactScheme can pass for the payload against the usual
\* requirements for an EIP-3009 token, whatever the chain answers.
FacilitatorMayAccept(name) ==
    LET payload == PayloadContents(name)
        a == payload.Payload.authorization
        r == RequirementsOf(Usual)
    IN /\ verifyPayment(payload) = <<>>
       /\ verifySignature(a, payload, r) = <<>>
       /\ verifyAmount(a, r) = <<>>
       /\ verifyParameters(a, r) = <<>>
       /\ simulateTransaction(a, payload.Payload.signature, [err |-> <<>>], "ok") = <<>>
       /\ TokenMayExecute(a, payload.Payload.signature, r)

NoFacResponse ==
    [status |-> 0, kind |-> "none", error |-> <<>>, IsValid |-> FALSE,
     InvalidReason |-> <<>>, Success |-> FALSE, ErrorReason |-> <<>>,
     Payer |-> <<"", "lower">>, Transaction |-> "", Network |-> ""]

NoTx == [nonce |-> 0, to |-> "", gasPrice |-> 0, data |-> <<>>, chainID |-> 0,
         signed |-> FALSE]

\* the facilitator when the gateway alone is observed
FacilitatorIdle ==
    /\ fconfig = [Supported |-> {}, Networks |-> {}, MaxGasPrice |-> ""]
    /\ freq = [endpoint |-> "none", body |-> "object",
               paymentPayload |-> PaymentPayloadOf(Usual),
               paymentRequirements |-> RequirementsOf(Usual)]
    /\ fpc = "idle"
    /\ rpcClients = {}
    /\ rpcLog = <<>>
    /\ stagesRun = <<>>
    /\ fresp = NoFacResponse
    /\ tx = NoTx
    /\ broadcasts = <<>>
    /\ inboundCancelledAt = -1
    /\ clockRead = -1

\* the library operations when the gateway or the facilitator is observed
NoSignIn == [auth |-> NoAuth, key |-> <<"", "lower">>, asset |-> <<"", "lower">>,
             name |-> "", version |-> "", network |-> ""]
NoSignOut == [err |-> <<>>, sig |-> NoSignature]
NoRecovered == [err |-> <<>>, addr |-> ""]
\* the networks of the pool, and the goroutines that serve requests
PoolNetworks == {"eip155:8453", "eip155:1"}
Goroutines == {1, 2}

\* no request is being served concurrently
ConcurrentIdle ==
    /\ gor = [g \in Goroutines |-> [job |-> "none", phase |-> "none", pc |-> "idle",
                                     network |-> "", auth |-> "", client |-> 0,
                                     gen |-> 0, via |-> "", nonce |-> 0,
                                     result |-> ""]]
    /\ rpcPool = [n \in PoolNetworks |-> 0]
    /\ rpcClientsMu = [writer |-> 0, readers |-> {}]
    /\ conns = <<>>
    /\ mainOps = <<>>
    /\ node = [txs |-> <<>>, mined |-> 0, executed |-> {}]
    /\ sends = <<>>
    /\ released = {}

\* the library operations when the gateway or the facilitator is observed
LibraryIdle ==
    /\ libCall = "none"
    /\ cpc = "idle"
    /\ signIn = NoSignIn
    /\ signOut = NoSignOut
    /\ recovered = NoRecovered
    /\ payloadIn = <<>>
    /\ encoded = EmptyHeader
    /\ decoded = <<>>
    /\ genIn = <<>>
    /\ generated = <<>>
    /\ cfgIn = <<>>
    /\ validated = <<>>

\* The answers the facilitator can give to the /verify call of the request:
\* isValid=true only for a payload its verifier can accept.
SentPayload ==
    LET payload == DecodePaymentHeader(request.paymentHeader).payload
    IN IF HasKey(payload, "payload") THEN FirstOf(payload, "payload")[1] ELSE ""
VerifyAnswersFor(name) ==
    { a \in VerifyAnswers : a.resp.IsValid => FacilitatorMayAccept(name) }

Protected == isProtectedPath(config, request.path)
    /\ ~(config.DiscoveryEnabled /\ request.path = <<".well-known", "x402">>)

Init ==
    /\ config \in Configs
    /\ request \in Requests
    /\ pc = "start"
    /\ ctxWriter = "writermem"
    /\ writermem = NewResponseWriter
    /\ buffered = NoBuffer
    /\ keys = {}
    /\ aborted = FALSE
    /\ verifyResp = NoVerifyResp
    /\ settleResp = NoSettleResp
    /\ verifyCalls = 0
    /\ settleCalls = 0
    /\ settled = FALSE
    /\ handlerRuns = 0
    /\ handlerOps = 0
    /\ history = <<>>
    /\ responses = <<>>
    /\ requirements = ""
    /\ produced = 0
    /\ FacilitatorIdle
    /\ LibraryIdle
    /\ ConcurrentIdle

(***************************************************************************)
(* X402Middleware.Handler, entry to the verify call.                       *)
(***************************************************************************)
WellKnown == <<".well-known", "x402">>

Install(W) == /\ writermem' = W.mem
              /\ buffered' = W.buf
              /\ history' = history \o Wire(W)

RouteResource(c, path) ==
    IF path \in c.RouteResources
      THEN ResourceInfo(path, "premium data", "application/json")
      ELSE ResourceInfo(path, "", "")

\* serveDiscovery
DiscoveryDocument(c) ==
    << <<"version", <<"1">>>> >>
    \o [i \in 1..Len(c.ProtectedPaths) |-> <<"resources", c.ProtectedPaths[i]>>]
    \o (IF Len(c.OwnershipProofs) > 0
          THEN << <<"ownershipProofs", c.OwnershipProofs>> >> ELSE <<>>)
    \o (IF c.Instructions # "" THEN << <<"instructions", <<c.Instructions>>>> >> ELSE <<>>)

\* the discovery test made only after the protected-path test
IsDiscoveryRequestUnlessProtected(c, path) ==
    c.DiscoveryEnabled /\ path = WellKnown /\ ~isProtectedPath(c, path)

\* m.config.DiscoveryEnabled && ctx.Request.URL.Path == "/.well-known/x402"
IsDiscoveryRequest(c, path) == c.DiscoveryEnabled /\ path = WellKnown

ServeDiscovery ==
    /\ pc = "start"
    /\ IsDiscoveryRequest(config, request.path)
    /\ LET W == CtxJSON(Writers, ctxWriter, 200, DiscoveryDocument(config))
       IN /\ Install(W)
          /\ responses' = Append(responses,
                 Response(W, ctxWriter, 200, DiscoveryDocument(config)))
    /\ aborted' = TRUE
    /\ pc' = "returned"
    /\ UNCHANGED <<concVars, libVars, facVars, config, request, ctxWriter, keys, verifyResp, settleResp,
                   verifyCalls, settleCalls, settled, handlerRuns, handlerOps,
                   requirements, produced>>

\* not a protected path: ctx.Next() on the untouched writer
PassThrough ==
    /\ pc = "start"
    /\ ~IsDiscoveryRequest(config, request.path)
    /\ ~isProtectedPath(config, request.path)
    /\ pc' = "handler"
    /\ handlerRuns' = handlerRuns + 1
    /\ history' = Append(history, "handler_start")
    /\ UNCHANGED <<concVars, libVars, facVars, config, request, ctxWriter, writermem, buffered, keys, aborted,
                   verifyResp, settleResp, verifyCalls, settleCalls, settled,
                   handlerOps, responses, requirements, produced>>

PaymentPath ==
    /\ pc = "start"
    /\ ~IsDiscoveryRequest(config, request.path)
    /\ isProtectedPath(config, request.path)

\* the types.PaymentRequired that sendPaymentRequired builds, without its error
ChallengeWithoutError(c, path, req) ==
    [ X402Version |-> 2, Error |-> "",
      Resource |-> RouteResource(c, path), Accepts |-> <<req>> ]

\* the types.PaymentRequired that sendPaymentRequired builds
PaymentRequiredChallenge(c, path, req) ==
    [ X402Version |-> 2,
      Error |-> GetPaymentHeaderName(c) \o " header is required",
      Resource |-> RouteResource(c, path),
      Accepts |-> <<req>> ]

\* sendPaymentRequired
SendPaymentRequired ==
    /\ PaymentPath
    /\ request.paymentHeader = EmptyHeader
    /\ \E req \in getRequirements(config, request.path) :
         LET response == PaymentRequiredChallenge(config, request.path, req)
             W1 == setPaymentRequiredHeader(Writers, ctxWriter, response)
             W2 == CtxJSON(W1, ctxWriter, 402, MarshalPaymentRequired(response))
         IN /\ Install(W2)
            /\ responses' = Append(responses,
                   Response(W2, ctxWriter, 402, MarshalPaymentRequired(response)))
    /\ aborted' = TRUE
    /\ pc' = "returned"
    /\ UNCHANGED <<concVars, libVars, facVars, config, request, ctxWriter, keys, verifyResp, settleResp,
                   verifyCalls, settleCalls, settled, handlerRuns, handlerOps,
                   requirements, produced>>

\* DecodePaymentHeader failed: 400
RejectHeader ==
    /\ PaymentPath
    /\ request.paymentHeader # EmptyHeader
    /\ DecodePaymentHeader(request.paymentHeader).err # ""
    /\ LET body == MarshalError("Invalid payment header: "
                                \o DecodePaymentHeader(request.paymentHeader).err)
           W == CtxJSON(Writers, ctxWriter, 400, body)
       IN /\ Install(W)
          /\ responses' = Append(responses, Response(W, ctxWriter, 400, body))
    /\ aborted' = TRUE
    /\ pc' = "returned"
    /\ UNCHANGED <<concVars, libVars, facVars, config, request, ctxWriter, keys, verifyResp, settleResp,
                   verifyCalls, settleCalls, settled, handlerRuns, handlerOps,
                   requirements, produced>>

\* getRequirements, then the facilitator /verify call is issued
CallVerify ==
    /\ PaymentPath
    /\ request.paymentHeader # EmptyHeader
    /\ DecodePaymentHeader(request.paymentHeader).err = ""
    /\ \E req \in getRequirements(config, request.path) : requirements' = req
    /\ verifyCalls' = verifyCalls + 1
    /\ history' = Append(history, "verify_call")
    /\ pc' = "verify"
    /\ UNCHANGED <<concVars, libVars, facVars, config, request, ctxWriter, writermem, buffered, keys, aborted,
                   verifyResp, settleResp, settleCalls, settled, handlerRuns,
                   handlerOps, responses, produced>>

(***************************************************************************)
(* The facilitator client's Verify returns.                                *)
(***************************************************************************)
\* Verify returned an error (transport failure, non-200 answer, bad JSON)
VerifyError ==
    /\ pc = "verify"
    /\ \E a \in VerifyAnswersFor(SentPayload) :
         LET body == MarshalError("Failed to verify payment: " \o Verify(a).err)
             W == CtxJSON(Writers, ctxWriter, 502, body)
         IN /\ Verify(a).err # ""
            /\ verifyResp' = Verify(a)
            /\ writermem' = W.mem
            /\ buffered' = W.buf
            /\ history' = history \o <<"verify_error">> \o Wire(W)
            /\ responses' = Append(responses, Response(W, ctxWriter, 502, body))
    /\ aborted' = TRUE
    /\ pc' = "returned"
    /\ UNCHANGED <<concVars, libVars, facVars, config, request, ctxWriter, keys, settleResp, verifyCalls,
                   settleCalls, settled, handlerRuns, handlerOps, requirements, produced>>

\* the types.PaymentRequired sent for isValid=false, with the reason left out
InvalidPaymentWithoutReason(req, reason) ==
    [ X402Version |-> 2, Error |-> "", Resource |-> NoResource, Accepts |-> <<req>> ]

\* the types.PaymentRequired sent for isValid=false
InvalidPaymentResponse(req, reason) ==
    [ X402Version |-> 2, Error |-> reason, Resource |-> NoResource, Accepts |-> <<req>> ]

\* Verify answered isValid=false
VerifyInvalid ==
    /\ pc = "verify"
    /\ \E a \in VerifyAnswersFor(SentPayload) :
         LET response == InvalidPaymentResponse(requirements, Verify(a).InvalidReason)
             W1 == setPaymentRequiredHeader(Writers, ctxWriter, response)
             W2 == CtxJSON(W1, ctxWriter, 402, MarshalPaymentRequired(response))
         IN /\ Verify(a).err = "" /\ ~Verify(a).IsValid
            /\ verifyResp' = Verify(a)
            /\ writermem' = W2.mem
            /\ buffered' = W2.buf
            /\ history' = history \o <<"verify_invalid">> \o Wire(W2)
            /\ responses' = Append(responses,
                   Response(W2, ctxWriter, 402, MarshalPaymentRequired(response)))
    /\ aborted' = TRUE
    /\ pc' = "returned"
    /\ UNCHANGED <<concVars, libVars, facVars, config, request, ctxWriter, keys, settleResp, verifyCalls,
                   settleCalls, settled, handlerRuns, handlerOps, requirements, produced>>

\* the keys of a verified payment without the header
VerifiedKeysWithoutHeader == {"x402_payment_verified", "x402_payment_requirements"}
VerifiedKeys == {"x402_payment_verified", "x402_payment_header", "x402_payment_requirements"}
SettlementKeys == {"x402_settlement_tx", "x402_settlement_network", "x402_settlement_payer"}

\* Verify answered isValid=true: context keys, buffered writer, ctx.Next()
VerifyValid ==
    /\ pc = "verify"
    /\ \E a \in VerifyAnswersFor(SentPayload) :
         /\ Verify(a).err = "" /\ Verify(a).IsValid
         /\ verifyResp' = Verify(a)
    /\ keys' = keys \cup VerifiedKeys
    /\ buffered' = newBufferedWriter(config.MaxBufferSize)
    /\ ctxWriter' = "buffered"
    /\ handlerRuns' = handlerRuns + 1
    /\ history' = history \o <<"verify_valid", "set_verified", "handler_start">>
    /\ pc' = "handler"
    /\ UNCHANGED <<concVars, libVars, facVars, config, request, writermem, aborted, settleResp, verifyCalls,
                   settleCalls, settled, handlerOps, responses, requirements, produced>>

(***************************************************************************)
(* The downstream handler, running inside ctx.Next() on ctx.Writer.  The   *)
(* bufferedWriter defines Write, WriteHeader, Header and Status; every     *)
(* other method of gin.ResponseWriter is the embedded writer's.            *)
(***************************************************************************)
HandlerStep ==
    /\ pc = "handler"
    /\ handlerOps < MaxHandlerOps
    /\ handlerOps' = handlerOps + 1
    /\ UNCHANGED <<concVars, libVars, facVars, config, request, pc, ctxWriter, keys, aborted, verifyResp,
                   settleResp, verifyCalls, settleCalls, settled, handlerRuns,
                   responses, requirements>>

HandlerWrite ==
    /\ HandlerStep
    /\ \E data \in HandlerChunks :
         IF ctxWriter = "buffered"
           THEN Install([Writers EXCEPT !.buf = BufWrite(buffered, data)])
                /\ produced' = produced + Len(data)
           ELSE Install([Writers EXCEPT !.mem = MemWrite(writermem, data)])
                /\ produced' = produced + Len(data)

HandlerWriteHeader ==
    /\ HandlerStep
    /\ \E code \in HandlerStatuses :
         IF ctxWriter = "buffered"
           THEN Install([Writers EXCEPT !.buf = BufWriteHeader(buffered, code)])
           ELSE Install([Writers EXCEPT !.mem = MemWriteHeader(writermem, code)])
    /\ UNCHANGED produced

HandlerSetHeader ==
    /\ HandlerStep
    /\ Install(CtxHeader(Writers, ctxWriter, "X-Handler", Plain("v")))
    /\ UNCHANGED produced

\* WriteString is not defined by bufferedWriter
HandlerWriteString ==
    /\ HandlerStep
    /\ \E data \in HandlerChunks :
         /\ Install([Writers EXCEPT !.mem = MemWrite(writermem, data)])
         /\ produced' = produced + Len(data)

\* WriteHeaderNow is not defined by bufferedWriter
HandlerWriteHeaderNow ==
    /\ HandlerStep
    /\ Install([Writers EXCEPT !.mem = MemWriteHeaderNow(writermem)])
    /\ UNCHANGED produced

\* Flush is not defined by bufferedWriter
HandlerFlush ==
    /\ HandlerStep
    /\ Install([Writers EXCEPT !.mem = MemWriteHeaderNow(writermem)])
    /\ UNCHANGED produced

\* the handler panics: the panic unwinds through ctx.Next() and the middleware
HandlerPanic ==
    /\ pc = "handler"
    /\ pc' = "panicked"
    /\ history' = Append(history, "handler_panic")
    /\ UNCHANGED <<concVars, libVars, facVars, config, request, ctxWriter, writermem, buffered, keys, aborted,
                   verifyResp, settleResp, verifyCalls, settleCalls, settled,
                   handlerRuns, handlerOps, responses, requirements, produced>>

(***************************************************************************)
(* X402Middleware.Handler after ctx.Next() has returned.                   *)
(***************************************************************************)
\* the 2xx test with its upper limit left out
HandlerSucceededNoUpperLimit(w) == w.status >= 200

\* buffered.Status() >= 200 && buffered.Status() < 300
HandlerSucceeded(w) == w.status >= 200 /\ w.status < 300

\* ctx.Next() returned on a path that is not protected
ReturnUnprotected ==
    /\ pc = "handler"
    /\ ctxWriter = "writermem"
    /\ pc' = "returned"
    /\ history' = Append(history, "handler_return")
    /\ UNCHANGED <<concVars, libVars, facVars, config, request, ctxWriter, writermem, buffered, keys, aborted,
                   verifyResp, settleResp, verifyCalls, settleCalls, settled,
                   handlerRuns, handlerOps, responses, requirements, produced>>

\* buffered.overflow: ctx.JSON(500, ...) and return
AbortOverflow ==
    /\ pc = "handler"
    /\ ctxWriter = "buffered"
    /\ buffered.overflow
    /\ LET body == MarshalError("Response too large to process payment")
           W == CtxJSON(Writers, ctxWriter, 500, body)
       IN /\ writermem' = W.mem
          /\ buffered' = W.buf
          /\ history' = history \o <<"handler_return", "overflow_abort">> \o Wire(W)
          /\ responses' = Append(responses, Response(W, ctxWriter, 500, body))
    /\ aborted' = TRUE
    /\ pc' = "returned"
    /\ UNCHANGED <<concVars, libVars, facVars, config, request, ctxWriter, keys, verifyResp, settleResp,
                   verifyCalls, settleCalls, settled, handlerRuns, handlerOps,
                   requirements, produced>>

\* the handler answered 2xx: the facilitator /settle call is issued
CallSettle ==
    /\ pc = "handler"
    /\ ctxWriter = "buffered"
    /\ ~buffered.overflow
    /\ HandlerSucceeded(buffered)
    /\ settleCalls' = settleCalls + 1
    /\ history' = history \o <<"handler_return", "settle_call">>
    /\ pc' = "settle"
    /\ UNCHANGED <<concVars, libVars, facVars, config, request, ctxWriter, writermem, buffered, keys, aborted,
                   verifyResp, settleResp, verifyCalls, settled, handlerRuns,
                   handlerOps, responses, requirements, produced>>

\* the handler answered non-2xx: the buffered response is flushed as it is
FlushNon2xx ==
    /\ pc = "handler"
    /\ ctxWriter = "buffered"
    /\ ~buffered.overflow
    /\ ~HandlerSucceeded(buffered)
    /\ LET W == [Writers EXCEPT !.mem = flush(buffered, writermem)]
       IN /\ writermem' = W.mem
          /\ history' = history \o <<"handler_return", "flush">> \o Wire(W)
    /\ pc' = "returned"
    /\ UNCHANGED <<concVars, libVars, facVars, config, request, ctxWriter, buffered, keys, aborted, verifyResp,
                   settleResp, verifyCalls, settleCalls, settled, handlerRuns,
                   handlerOps, responses, requirements, produced>>

(***************************************************************************)
(* The facilitator client's Settle returns.  settled records whether the   *)
(* facilitator itself completed the settlement with success=true, which a  *)
(* lost or undecodable answer does not undo.                               *)
(***************************************************************************)
SettleError ==
    /\ pc = "settle"
    /\ \E a \in SettleAnswers :
         LET body == MarshalError("Failed to settle payment: " \o Settle(a).err)
             W == CtxJSON(Writers, ctxWriter, 502, body)
         IN /\ Settle(a).err # ""
            /\ settleResp' = Settle(a)
            /\ settled' = a.resp.Success
            /\ writermem' = W.mem
            /\ buffered' = W.buf
            /\ history' = history \o <<"settle_error">> \o Wire(W)
            /\ responses' = Append(responses, Response(W, ctxWriter, 502, body))
    /\ aborted' = TRUE
    /\ pc' = "returned"
    /\ UNCHANGED <<concVars, libVars, facVars, config, request, ctxWriter, keys, verifyResp, verifyCalls,
                   settleCalls, handlerRuns, handlerOps, requirements, produced>>

SettleUnsuccessful ==
    /\ pc = "settle"
    /\ \E a \in SettleAnswers :
         LET body == MarshalError("Payment settlement failed: " \o Settle(a).ErrorReason)
             W == CtxJSON(Writers, ctxWriter, 402, body)
         IN /\ Settle(a).err = "" /\ ~Settle(a).Success
            /\ settleResp' = Settle(a)
            /\ writermem' = W.mem
            /\ buffered' = W.buf
            /\ history' = history \o <<"settle_unsuccessful">> \o Wire(W)
            /\ responses' = Append(responses, Response(W, ctxWriter, 402, body))
    /\ settled' = FALSE
    /\ aborted' = TRUE
    /\ pc' = "returned"
    /\ UNCHANGED <<concVars, libVars, facVars, config, request, ctxWriter, keys, verifyResp, verifyCalls,
                   settleCalls, handlerRuns, handlerOps, requirements, produced>>

SettleSuccess ==
    /\ pc = "settle"
    /\ \E a \in SettleAnswers :
       LET resp == Settle(a)
           W1 == setPaymentResponseHeader(Writers, ctxWriter, resp)
           W2 == [W1 EXCEPT !.mem = flush(W1.buf, W1.mem)]
       IN /\ resp.err = "" /\ resp.Success
          /\ settleResp' = resp
          /\ writermem' = W2.mem
          /\ buffered' = W2.buf
          /\ history' = history \o <<"settle_success", "set_settlement", "flush">> \o Wire(W2)
    /\ settled' = TRUE
    /\ keys' = keys \cup SettlementKeys
    /\ pc' = "returned"
    /\ UNCHANGED <<concVars, libVars, facVars, config, request, ctxWriter, aborted, verifyResp, verifyCalls,
                   settleCalls, handlerRuns, handlerOps, responses, requirements, produced>>

\* The middleware function has returned: the server completes the response,
\* writing the pending status line if nothing was written.
Finish ==
    /\ pc = "returned"
    /\ LET W == [Writers EXCEPT !.mem = MemWriteHeaderNow(writermem)]
       IN /\ writermem' = W.mem
          /\ history' = history \o Wire(W)
    /\ pc' = "done"
    /\ UNCHANGED <<concVars, libVars, facVars, config, request, ctxWriter, buffered, keys, aborted, verifyResp,
                   settleResp, verifyCalls, settleCalls, settled, handlerRuns,
                   handlerOps, responses, requirements, produced>>

Next ==
    \/ ServeDiscovery
    \/ PassThrough
    \/ SendPaymentRequired
    \/ RejectHeader
    \/ CallVerify
    \/ VerifyError
    \/ VerifyInvalid
    \/ VerifyValid
    \/ HandlerWrite
    \/ HandlerWriteHeader
    \/ HandlerSetHeader
    \/ HandlerWriteString
    \/ HandlerWriteHeaderNow
    \/ HandlerFlush
    \/ HandlerPanic
    \/ ReturnUnprotected
    \/ AbortOverflow
    \/ CallSettle
    \/ FlushNon2xx
    \/ SettleError
    \/ SettleUnsuccessful
    \/ SettleSuccess
    \/ Finish

Spec == Init /\ [][Next]_vars

(***************************************************************************)
(* Properties.                                                             *)
(***************************************************************************)
Sent == writermem.sent
Status2xx(code) == code >= 200 /\ code < 300
Has(e) == \E i \in 1..Len(history) : history[i] = e
Pos(e) == IF Has(e) THEN CHOOSE i \in 1..Len(history) :
                            history[i] = e /\ \A j \in 1..(i - 1) : history[j] # e
          ELSE 0
SettleReturned == Has("settle_error") \/ Has("settle_unsuccessful") \/ Has("settle_success")
SettleReturnPos ==
    IF Has("settle_error") THEN Pos("settle_error")
    ELSE IF Has("settle_unsuccessful") THEN Pos("settle_unsuccessful")
    ELSE Pos("settle_success")
PaidRequest == Protected /\ request.paymentHeader # EmptyHeader
Terminal == pc = "done"

\* C1: on a protected path with a payment header, nothing of a handler's 2xx
\* response has been written to the client connection unless the /settle call
\* of the request has returned success=true.
C1_NoByteBeforeSettle ==
    (PaidRequest /\ ctxWriter = "buffered" /\ HandlerSucceeded(buffered)
       /\ writermem.written)
    => settleResp.Success

\* C2: a request on a protected path whose client received a 2xx response made
\* exactly one /settle call and that call returned success=true.
C2_ExactlyOneSettle ==
    (Terminal /\ Protected /\ Status2xx(Sent.status))
    => (settleCalls = 1 /\ settleResp.Success)

C4_FixedOrder ==
    /\ (Protected /\ Has("handler_start"))
         => (Has("verify_valid") /\ Pos("verify_valid") < Pos("handler_start"))
    /\ Has("settle_call")
         => (Has("handler_return") /\ Pos("handler_return") < Pos("settle_call"))
    /\ (Has("settle_call") /\ Has("wire"))
         => (SettleReturned /\ SettleReturnPos < Pos("wire"))

\* C5: with maxBufferSize > 0, a request whose handler produced a body larger
\* than maxBufferSize never has a /settle call.
C5_NoSettleWhenTooLarge ==
    (ctxWriter = "buffered" /\ config.MaxBufferSize > 0
       /\ produced > config.MaxBufferSize)
    => settleCalls = 0

\* C6: a handler that finished with a status outside 200-299, or panicked,
\* causes no /settle call, and the buffered status, headers and body of a
\* non-2xx handler response reach the client unchanged.
C6_Non2xxBypass ==
    /\ pc = "panicked" => settleCalls = 0
    /\ pc = "settle" => HandlerSucceeded(buffered)
    /\ (Terminal /\ Has("flush") /\ ~Has("settle_call"))
         => /\ settleCalls = 0
            /\ Sent.status = buffered.status
            /\ Sent.header = buffered.header
            /\ Sent.body = buffered.body

\* C7: a failed verify call is answered with 502, isValid=false with 402
\* carrying the facilitator's invalidReason; in both cases the handler is not
\* invoked and /settle is not called.
C7_VerifyFailure ==
    /\ (Has("verify_error") \/ Has("verify_invalid"))
         => (handlerRuns = 0 /\ settleCalls = 0 /\ pc \in {"returned", "done"})
    /\ (Terminal /\ Has("verify_error")) => Sent.status = 502
    /\ (Terminal /\ Has("verify_invalid"))
         => /\ Sent.status = 402
            /\ verifyResp.InvalidReason \in InvalidReasons
            /\ UnmarshalPaymentRequired(Sent.body).Error = verifyResp.InvalidReason

C7_Witness ==
    /\ Terminal /\ Has("verify_invalid") /\ Sent.status = 402
    /\ UnmarshalPaymentRequired(Sent.body).Error = "insufficient_funds"

\* C8: after the handler's response was buffered, a failure reaches the
\* client with its status and without the handler's response: 500 for an
\* overflow, 502 for a failed settle call, 402 with the settlement reason for
\* success=false.
C8_FailureAfterBuffering ==
    /\ (Terminal /\ Has("overflow_abort")) => Sent.status = 500
    /\ (Terminal /\ Has("settle_error")) => Sent.status = 502
    /\ (Terminal /\ Has("settle_unsuccessful"))
         => /\ Sent.status = 402
            /\ Sent.body = MarshalError("Payment settlement failed: " \o settleResp.ErrorReason)
    /\ (Terminal /\ (Has("overflow_abort") \/ Has("settle_error")
                       \/ Has("settle_unsuccessful")))
         => ~HasKey(Sent.body, "raw")

\* C9: a request on a protected path without the payment header is answered
\* with 402 and a PaymentRequired body of version 2, the path's requirements,
\* the request path as resource url and the header-required error; the
\* PAYMENT-REQUIRED header decodes to the same object; neither the
\* facilitator nor the handler is reached.
C9_MissingHeaderChallenge ==
    (Protected /\ request.paymentHeader = EmptyHeader /\ pc # "start")
    => /\ verifyCalls = 0 /\ settleCalls = 0 /\ handlerRuns = 0
       /\ Sent.status = 402
       /\ LET body == UnmarshalPaymentRequired(Sent.body)
              hdr == Sent.header["PAYMENT-REQUIRED"]
          IN /\ body.X402Version = 2
             /\ Len(body.Accepts) = 1
             /\ body.Accepts[1] \in getRequirements(config, request.path)
             /\ ~body.Resource.nil
             /\ body.Resource.URL = request.path
             /\ body.Error = GetPaymentHeaderName(config) \o " header is required"
             /\ Len(hdr) = 1
             /\ Base64Decode(hdr[1]).ok
             /\ UnmarshalPaymentRequired(Base64Decode(hdr[1]).data) = body

C9_Witness ==
    /\ Terminal /\ Protected /\ request.paymentHeader = EmptyHeader
    /\ Sent.status = 402
    /\ UnmarshalPaymentRequired(Sent.body).Error = "X-PAYMENT header is required"

\* A response whose body is a types.PaymentRequired with an error and the
\* accepts list, sent along with the PAYMENT-REQUIRED header.
IsPaymentRequired(r) ==
    /\ HasKey(r.body, "x402Version")
    /\ HasKey(r.body, "accepts")
    /\ HasKey(r.body, "error")
    /\ UnmarshalPaymentRequired(r.body).Error # ""
    /\ r.header["PAYMENT-REQUIRED"] # <<>>

\* C10: every 402 response the gateway produces (missing header, verification
\* rejected, settlement unsuccessful) is a PaymentRequired object with an
\* error and the accepts list, and carries the PAYMENT-REQUIRED header.
C10_Every402IsPaymentRequired ==
    \A i \in 1..Len(responses) :
        responses[i].status = 402 => IsPaymentRequired(responses[i])

\* C12: when verify was valid, the handler answered 2xx and settle returned
\* success, the client receives exactly the handler's status, headers and
\* body, plus a PAYMENT-RESPONSE header that decodes to the settle response;
\* no other outcome carries a PAYMENT-RESPONSE header.
C12_HappyPath ==
    /\ (Terminal /\ Has("settle_success"))
         => /\ Sent.status = buffered.status
            /\ Sent.body = buffered.body
            /\ Len(Sent.body) = produced
            /\ \A h \in HeaderNames \ {"PAYMENT-RESPONSE"} :
                   Sent.header[h] = buffered.header[h]
            /\ Len(Sent.header["PAYMENT-RESPONSE"]) = 1
            /\ Base64Decode(Sent.header["PAYMENT-RESPONSE"][1]).ok
            /\ UnmarshalSettleResponse(
                   Base64Decode(Sent.header["PAYMENT-RESPONSE"][1]).data)
                 = [f \in {"Success", "ErrorReason", "Payer", "Transaction", "Network"}
                      |-> settleResp[f]]
    /\ (Terminal /\ ~Has("settle_success"))
         => Sent.header["PAYMENT-RESPONSE"] = <<>>

\* C13: with discovery enabled a request to /.well-known/x402 is answered
\* with the discovery document of status 200, whatever the payment header
\* and the protected patterns are; the facilitator and the handler are not
\* reached and the answer carries no payment challenge.
C13_DiscoveryBypass ==
    (config.DiscoveryEnabled /\ request.path = WellKnown /\ pc # "start")
    => /\ verifyCalls = 0 /\ settleCalls = 0 /\ handlerRuns = 0
       /\ Sent.status = 200
       /\ Sent.body = DiscoveryDocument(config)
       /\ Sent.header["PAYMENT-REQUIRED"] = <<>>
       /\ ~HasKey(Sent.body, "accepts")
       /\ pc \in {"returned", "done"}

C13_Witness ==
    /\ Terminal /\ config.DiscoveryEnabled /\ request.path = WellKnown
    /\ isProtectedPath(config, request.path)
    /\ request.paymentHeader = EmptyHeader
    /\ HasKey(Sent.body, "instructions") /\ Sent.status = 200

HeaderDecodes == /\ request.paymentHeader # EmptyHeader
                 /\ DecodePaymentHeader(request.paymentHeader).err = ""
Carries(name) == HeaderDecodes /\ SentPayload = name
UndecodableHeaders == { Plain("!"), Base64Encode(<<Byte("{")>>) }
MalformedInput ==
    \/ request.paymentHeader \in UndecodableHeaders
    \/ Carries("sig64")
    \/ Carries("nonce31")

Payload == freq.paymentPayload
Reqs == freq.paymentRequirements
Auth == freq.paymentPayload.Payload.authorization
Signature == freq.paymentPayload.Payload.signature

\* the gateway when the facilitator alone is observed
GatewayIdle ==
    /\ config = [ MaxBufferSize |-> 0, DiscoveryEnabled |-> FALSE,
                  OwnershipProofs |-> <<>>, Instructions |-> "",
                  ProtectedPaths |-> << <<"api", "*">> >>, RouteRequirements |-> {},
                  RouteResources |-> {}, DefaultRequirements |-> "reqDefault",
                  PaymentHeaderName |-> "" ]
    /\ request = [path |-> <<"public">>, paymentHeader |-> EmptyHeader]
    /\ pc = "idle"
    /\ ctxWriter = "writermem"
    /\ writermem = NewResponseWriter
    /\ buffered = NoBuffer
    /\ keys = {}
    /\ aborted = FALSE
    /\ verifyResp = NoVerifyResp
    /\ settleResp = NoSettleResp
    /\ verifyCalls = 0
    /\ settleCalls = 0
    /\ settled = FALSE
    /\ handlerRuns = 0
    /\ handlerOps = 0
    /\ history = <<>>
    /\ responses = <<>>
    /\ requirements = ""
    /\ produced = 0

\* Run has dialed every configured network (DialRPCClients); a Facilitator
\* whose router is served without Run starts with an empty pool.
FacInit ==
    /\ GatewayIdle
    /\ LibraryIdle
    /\ ConcurrentIdle
    /\ fconfig \in FacConfigs
    /\ freq \in FacRequests
    /\ fpc = "idle"
    /\ rpcClients \in {fconfig.Networks, {}}
    /\ rpcLog = <<>>
    /\ stagesRun = <<>>
    /\ fresp = NoFacResponse
    /\ tx = NoTx
    /\ broadcasts = <<>>
    /\ inboundCancelledAt = -1
    /\ clockRead = -1

\* ginCtx.JSON(http.StatusBadRequest, gin.H{"error": err.Error()})
BadRequest(err) == [NoFacResponse EXCEPT !.status = 400, !.kind = "error", !.error = err]

\* ShouldBindJSON
ShouldBindJSON(body) ==
    CASE body = "syntax error" -> <<"invalid character">>
      [] body = "wrong type" -> <<"json: cannot unmarshal">>
      [] OTHER -> <<>>

\* types.VerifyResponse{IsValid, InvalidReason} sent with status 200
VerifyResponse(isValid, invalidReason) ==
    [NoFacResponse EXCEPT !.status = 200, !.kind = "verify", !.IsValid = isValid,
                          !.InvalidReason = invalidReason]

\* a failing stage that does not return: the next stage runs all the same
VerdictStagesGoOn(stage, reason, next) ==
    /\ stagesRun' = Append(stagesRun, stage)
    /\ fpc' = next
    /\ fresp' = IF reason = <<>> THEN fresp ELSE VerifyResponse(FALSE, reason)

\* one step of the verifier: stage has run and returned reason
Verdict(stage, reason, next) ==
    /\ stagesRun' = Append(stagesRun, stage)
    /\ IF reason = <<>>
         THEN fpc' = next /\ fresp' = fresp
         ELSE fpc' = "done" /\ fresp' = VerifyResponse(FALSE, reason)

\* Facilitator.getRPCClient: the pooled client, or a lazily dialed one
getRPCClient(c, pool, network, dialOK) ==
    IF network \in pool THEN [err |-> <<>>, pool |-> pool, ops |-> <<>>]
    ELSE IF GetNetworkConfig(c, network) # <<>>
      THEN [err |-> GetNetworkConfig(c, network), pool |-> pool, ops |-> <<>>]
    ELSE IF ~dialOK
      THEN [err |-> <<"failed to connect to RPC">>, pool |-> pool, ops |-> <<"dial">>]
    ELSE [err |-> <<>>, pool |-> pool \cup {network}, ops |-> <<"dial">>]

Balances == {0, 10}
BalanceAnswers == {[err |-> TRUE, balance |-> 0]}
                  \cup {[err |-> FALSE, balance |-> b] : b \in Balances}
GasPrices == {9, 10, 11}
GasPriceAnswers == {[err |-> TRUE, price |-> 0]}
                   \cup {[err |-> FALSE, price |-> g] : g \in GasPrices}
Times == 4..8

\* handleVerify: the body does not bind
HandleVerifyBadRequest ==
    /\ fpc = "idle" /\ freq.endpoint = "verify"
    /\ ShouldBindJSON(freq.body) # <<>>
    /\ fresp' = BadRequest(ShouldBindJSON(freq.body))
    /\ fpc' = "done"
    /\ UNCHANGED <<concVars, libVars, gatewayVars, inboundCancelledAt, clockRead, fconfig, freq, rpcClients, rpcLog, stagesRun, tx, broadcasts>>

\* handleVerify: the scheme-network pair of the requirements is not supported
HandleVerifyUnsupported ==
    /\ fpc = "idle" /\ freq.endpoint = "verify"
    /\ ShouldBindJSON(freq.body) = <<>>
    /\ ~IsSupported(fconfig, Reqs.Scheme, Reqs.Network)
    /\ fresp' = VerifyResponse(FALSE, <<"unsupported scheme-network">>)
    /\ fpc' = "done"
    /\ UNCHANGED <<concVars, libVars, gatewayVars, inboundCancelledAt, clockRead, fconfig, freq, rpcClients, rpcLog, stagesRun, tx, broadcasts>>

HandleVerify ==
    /\ fpc = "idle" /\ freq.endpoint = "verify"
    /\ ShouldBindJSON(freq.body) = <<>>
    /\ IsSupported(fconfig, Reqs.Scheme, Reqs.Network)
    /\ IF verifyPayment(Payload) = <<>>
         THEN fpc' = "verifySignature" /\ fresp' = fresp
         ELSE fpc' = "done" /\ fresp' = VerifyResponse(FALSE, verifyPayment(Payload))
    /\ UNCHANGED <<concVars, libVars, gatewayVars, inboundCancelledAt, clockRead, fconfig, freq, rpcClients, rpcLog, stagesRun, tx, broadcasts>>

(***************************************************************************)
(* The six stages of verifyExactScheme.                                    *)
(***************************************************************************)
StageSignature ==
    /\ fpc = "verifySignature"
    /\ Verdict("signature", verifySignature(Auth, Payload, Reqs), "verifyBalance")
    /\ UNCHANGED <<concVars, libVars, gatewayVars, inboundCancelledAt, clockRead, fconfig, freq, rpcClients, rpcLog, tx, broadcasts>>

\* Stage 2, verifyBalance: outcome is the answer to the balanceOf call, a
\* balance or "error"
verifyBalance(a, client, outcome) ==
    IF ~SetString(a.Value).ok THEN <<"invalid payment amount format">>
    ELSE IF client.err # <<>> THEN <<"failed to connect to network">> \o client.err
    ELSE IF outcome.err THEN <<"failed to call balanceOf">>
    ELSE IF outcome.balance < SetString(a.Value).val THEN <<"insufficient balance">>
    ELSE <<>>

StageBalance ==
    /\ fpc = "verifyBalance"
    /\ \E dialOK \in BOOLEAN, outcome \in BalanceAnswers :
         LET client == getRPCClient(fconfig, rpcClients, Reqs.Network, dialOK) IN
         IF ~SetString(Auth.Value).ok
           THEN /\ Verdict("balance", verifyBalance(Auth, client, outcome), "verifyAmount")
                /\ UNCHANGED <<rpcClients, rpcLog>>
           ELSE /\ Verdict("balance", verifyBalance(Auth, client, outcome), "verifyAmount")
                /\ rpcClients' = client.pool
                /\ rpcLog' = rpcLog \o client.ops
                             \o (IF client.err = <<>> THEN <<"balanceOf">> ELSE <<>>)
    /\ UNCHANGED <<concVars, libVars, gatewayVars, inboundCancelledAt, clockRead, fconfig, freq, tx, broadcasts>>

StageAmount ==
    /\ fpc = "verifyAmount"
    /\ Verdict("amount", verifyAmount(Auth, Reqs), "verifyTimeWindow")
    /\ UNCHANGED <<concVars, libVars, gatewayVars, inboundCancelledAt, clockRead, fconfig, freq, rpcClients, rpcLog, tx, broadcasts>>

\* the time window with validBefore itself refused
verifyTimeWindowEndExcluded(a, now) ==
    IF now < a.ValidAfter
      THEN <<"payment not yet valid (valid after %d)", ItoA(a.ValidAfter)>>
    ELSE IF now >= a.ValidBefore
      THEN <<"payment expired (valid before %d)", ItoA(a.ValidBefore)>>
    ELSE <<>>

\* Stage 4, verifyTimeWindow at time.Now().Unix() = now
verifyTimeWindow(a, now) ==
    IF now < a.ValidAfter
      THEN <<"payment not yet valid (valid after %d)", ItoA(a.ValidAfter)>>
    ELSE IF now > a.ValidBefore
      THEN <<"payment expired (valid before %d)", ItoA(a.ValidBefore)>>
    ELSE <<>>

StageTimeWindow ==
    /\ fpc = "verifyTimeWindow"
    /\ \E now \in Times :
         /\ clockRead' = now
         /\ Verdict("time window", verifyTimeWindow(Auth, now), "verifyParameters")
    /\ UNCHANGED <<concVars, libVars, gatewayVars, inboundCancelledAt, fconfig, freq, rpcClients, rpcLog, tx, broadcasts>>

StageParameters ==
    /\ fpc = "verifyParameters"
    /\ Verdict("parameters", verifyParameters(Auth, Reqs), "simulateTransaction")
    /\ UNCHANGED <<concVars, libVars, gatewayVars, inboundCancelledAt, clockRead, fconfig, freq, rpcClients, rpcLog, tx, broadcasts>>

\* all six stages passed: handleVerify answers isValid=true
StageSimulate ==
    /\ fpc = "simulateTransaction"
    /\ \E dialOK \in BOOLEAN, outcome \in {"ok", "revert", "error"} :
         LET client == getRPCClient(fconfig, rpcClients, Reqs.Network, dialOK)
             reason == simulateTransaction(Auth, Signature, client, outcome)
             called == client.err = <<>> /\ ExtractVRS(Signature) = <<>> /\ Auth.Nonce.hex
         IN /\ outcome = "ok" => TokenMayExecute(Auth, Signature, Reqs)
            /\ stagesRun' = Append(stagesRun, "simulation")
            /\ rpcClients' = client.pool
            /\ rpcLog' = rpcLog \o client.ops \o (IF called THEN <<"eth_call">> ELSE <<>>)
            /\ fresp' = IF reason = <<>> THEN VerifyResponse(TRUE, <<>>)
                        ELSE VerifyResponse(FALSE, reason)
    /\ fpc' = "done"
    /\ UNCHANGED <<concVars, libVars, gatewayVars, inboundCancelledAt, clockRead, fconfig, freq, tx, broadcasts>>

(***************************************************************************)
(* handleSettle, settlePayment, settleExactScheme and                      *)
(* sendTransferWithAuthorization.                                          *)
(***************************************************************************)
\* the settler's failure sent as a server error
SettleFailureAsServerError(reason) ==
    [NoFacResponse EXCEPT !.status = 500, !.kind = "error", !.error = reason]

\* types.SettleResponse{Success: false, ErrorReason} sent with status 200
SettleFailure(reason) ==
    [NoFacResponse EXCEPT !.status = 200, !.kind = "settle", !.ErrorReason = reason]

\* sendTransferWithAuthorization returned err: settleExactScheme wraps it
SendFailure(err) == SettleFailure(<<"failed to settle payment">> \o err)

HandleSettleBadRequest ==
    /\ fpc = "idle" /\ freq.endpoint = "settle"
    /\ ShouldBindJSON(freq.body) # <<>>
    /\ fresp' = BadRequest(ShouldBindJSON(freq.body))
    /\ fpc' = "done"
    /\ UNCHANGED <<concVars, libVars, gatewayVars, inboundCancelledAt, clockRead, fconfig, freq, rpcClients, rpcLog, stagesRun, tx, broadcasts>>

\* settlePayment and settleExactScheme up to the RPC client
settlePayment(payload) ==
    IF payload.Accepted.Scheme # "exact" THEN <<"unsupported scheme">>
    ELSE IF ~payload.Payload.signature.present THEN <<"missing signature">>
    ELSE IF ExtractExactAuthorization(payload) # <<>>
      THEN <<"invalid authorization">> \o ExtractExactAuthorization(payload)
    ELSE <<>>

\* sendTransferWithAuthorization before its first RPC call: ExtractVRS and
\* the width of the nonce (common.FromHex yields no 32 bytes for a string
\* that is not the hex of 32 bytes)
PrepareTransfer(a, sig) ==
    IF ExtractVRS(sig) # <<>> THEN <<"failed to extract signature">> \o ExtractVRS(sig)
    ELSE IF ~(a.Nonce.hex /\ a.Nonce.len = 32)
      THEN <<"invalid nonce length: expected 32 bytes">>
    ELSE <<>>

HandleSettle ==
    /\ fpc = "idle" /\ freq.endpoint = "settle"
    /\ ShouldBindJSON(freq.body) = <<>>
    /\ IF settlePayment(Payload) # <<>>
         THEN /\ fresp' = SettleFailure(settlePayment(Payload))
              /\ fpc' = "done"
              /\ UNCHANGED <<rpcClients, rpcLog>>
         ELSE \E dialOK \in BOOLEAN :
                LET client == getRPCClient(fconfig, rpcClients, Reqs.Network, dialOK) IN
                /\ rpcClients' = client.pool
                /\ rpcLog' = rpcLog \o client.ops
                /\ IF client.err # <<>>
                     THEN /\ fresp' = SettleFailure(<<"failed to connect to network">>
                                                    \o client.err)
                          /\ fpc' = "done"
                     ELSE IF PrepareTransfer(Auth, Signature) # <<>>
                       THEN /\ fresp' = SendFailure(PrepareTransfer(Auth, Signature))
                            /\ fpc' = "done"
                       ELSE /\ fresp' = fresp
                            /\ fpc' = "PendingNonceAt"
    /\ UNCHANGED <<concVars, libVars, gatewayVars, inboundCancelledAt, clockRead, fconfig, freq, stagesRun, tx, broadcasts>>

\* client.PendingNonceAt(ctx, signer address)
SettlePendingNonce ==
    /\ fpc = "PendingNonceAt"
    /\ rpcLog' = Append(rpcLog, "PendingNonceAt")
    /\ \E answer \in {[err |-> TRUE, nonce |-> 0], [err |-> FALSE, nonce |-> 0],
                      [err |-> FALSE, nonce |-> 1]} :
         IF answer.err
           THEN /\ fresp' = SendFailure(<<"failed to get nonce">>)
                /\ fpc' = "done"
                /\ tx' = tx
           ELSE /\ tx' = [tx EXCEPT !.nonce = answer.nonce]
                /\ fpc' = "SuggestGasPrice"
                /\ fresp' = fresp
    /\ UNCHANGED <<concVars, libVars, gatewayVars, inboundCancelledAt, clockRead, fconfig, freq, rpcClients, stagesRun, broadcasts>>

\* the ceiling test with the ceiling itself refused
GasPriceTooHighAtCeiling(gasPrice, maxGasPrice) == gasPrice >= maxGasPrice

\* gasPrice.Cmp(maxGasPrice) > 0
GasPriceTooHigh(gasPrice, maxGasPrice) == gasPrice > maxGasPrice

\* client.SuggestGasPrice(ctx), then the ceiling of the configuration
SettleGasPrice ==
    /\ fpc = "SuggestGasPrice"
    /\ rpcLog' = Append(rpcLog, "SuggestGasPrice")
    /\ \E answer \in GasPriceAnswers :
         IF answer.err
           THEN /\ fresp' = SendFailure(<<"failed to get gas price">>)
                /\ fpc' = "done"
                /\ tx' = tx
           ELSE /\ tx' = [tx EXCEPT !.gasPrice = answer.price]
                /\ IF ~SetString(fconfig.MaxGasPrice).ok
                     THEN /\ fresp' = SendFailure(<<"failed to parse max gas price">>)
                          /\ fpc' = "done"
                     ELSE IF GasPriceTooHigh(answer.price, SetString(fconfig.MaxGasPrice).val)
                       THEN /\ fresp' = SendFailure(<<"gas price too high">>)
                            /\ fpc' = "done"
                       ELSE /\ fresp' = fresp
                            /\ fpc' = "EstimateGas"
    /\ UNCHANGED <<concVars, libVars, gatewayVars, inboundCancelledAt, clockRead, fconfig, freq, rpcClients, stagesRun, broadcasts>>

\* client.EstimateGas, NewTransaction, GetChainID and SignTx
SettleEstimateGas ==
    /\ fpc = "EstimateGas"
    /\ rpcLog' = Append(rpcLog, "EstimateGas")
    /\ \E outcome \in {"ok", "revert", "error"} :
         /\ outcome = "ok" => TokenMayExecute(Auth, Signature, Reqs)
         /\ IF outcome # "ok"
              THEN /\ fresp' = SendFailure(<<"failed to estimate gas">>)
                   /\ fpc' = "done"
                   /\ tx' = tx
              ELSE IF GetChainID(Reqs.Network).err # <<>>
                THEN /\ fresp' = SendFailure(<<"failed to get chain id">>
                                             \o GetChainID(Reqs.Network).err)
                     /\ fpc' = "done"
                     /\ tx' = tx
                ELSE /\ tx' = [tx EXCEPT !.to = HexToAddress(Reqs.Asset),
                                         !.data = <<Auth, Signature>>,
                                         !.chainID = GetChainID(Reqs.Network).id,
                                         !.signed = TRUE]
                     /\ fresp' = fresp
                     /\ fpc' = "SendTransaction"
    /\ UNCHANGED <<concVars, libVars, gatewayVars, inboundCancelledAt, clockRead, fconfig, freq, rpcClients, stagesRun, broadcasts>>

\* the success response with the payer left out
SettleSucceededPayerLeftOut(a, r) ==
    [NoFacResponse EXCEPT !.status = 200, !.kind = "settle", !.Success = TRUE,
                          !.Transaction = "0xtx", !.Network = r.Network]

\* types.SettleResponse{Success: true, Transaction, Network, Payer}
SettleSucceeded(a, r) ==
    [NoFacResponse EXCEPT !.status = 200, !.kind = "settle", !.Success = TRUE,
                          !.Transaction = "0xtx", !.Network = r.Network,
                          !.Payer = a.From]

\* client.SendTransaction: the node takes the transaction and answers, or
\* refuses it, or takes it while its answer is lost
SettleSend ==
    /\ fpc = "SendTransaction"
    /\ rpcLog' = Append(rpcLog, "SendTransaction")
    /\ \E outcome \in {"accepted", "refused", "answer lost"} :
         /\ broadcasts' = IF outcome = "refused" THEN broadcasts
                          ELSE Append(broadcasts, tx)
         /\ fresp' = IF outcome = "accepted" THEN SettleSucceeded(Auth, Reqs)
                     ELSE SendFailure(<<"failed to send transaction">>)
    /\ fpc' = "done"
    /\ UNCHANGED <<concVars, libVars, gatewayVars, inboundCancelledAt, clockRead, fconfig, freq, rpcClients, stagesRun, tx>>

(***************************************************************************)
(* Cancellation of the request that came in at the gateway while the POST  *)
(* it caused is being served.                                              *)
(***************************************************************************)
\* FacilitatorClient.Verify and FacilitatorClient.Settle take no context and
\* post with httpClient.Post(url, "application/json", body); the middleware
\* calls m.facilitator.Verify(verifyReq).  Whether the POST is aborted when
\* the context of the inbound request is done.
PostAborted(inboundDone) == FALSE

\* The client disconnects from the gateway, or the gateway shuts down, while
\* the POST is being served.  handleVerify and handleSettle hand
\* ginCtx.Request.Context() down, which is done only when the POST itself is
\* aborted.
InboundCancelled ==
    /\ fpc # "done" /\ freq.endpoint # "none"
    /\ inboundCancelledAt = -1
    /\ inboundCancelledAt' = Len(rpcLog)
    /\ fpc' = IF PostAborted(TRUE) THEN "done" ELSE fpc
    /\ UNCHANGED <<concVars, libVars, gatewayVars, fconfig, freq, rpcClients, rpcLog, stagesRun, fresp,
                   tx, broadcasts, clockRead>>

FacNext ==
    \/ HandleVerifyBadRequest
    \/ HandleVerifyUnsupported
    \/ HandleVerify
    \/ StageSignature
    \/ StageBalance
    \/ StageAmount
    \/ StageTimeWindow
    \/ StageParameters
    \/ StageSimulate
    \/ HandleSettleBadRequest
    \/ HandleSettle
    \/ SettlePendingNonce
    \/ SettleGasPrice
    \/ SettleEstimateGas
    \/ SettleSend
    \/ InboundCancelled

FacSpec == FacInit /\ [][FacNext]_vars

(***************************************************************************)
(* Properties of the facilitator.                                          *)
(***************************************************************************)
Ran(stage) == \E i \in 1..Len(stagesRun) : stagesRun[i] = stage
Did(op) == \E i \in 1..Len(rpcLog) : rpcLog[i] = op
Mentions(reason, s) == \E i \in 1..Len(reason) : reason[i] = s
Binds == freq.body = "object"
SixStages == <<"signature", "balance", "amount", "time window", "parameters", "simulation">>
Recovers == /\ recoveredAddr(Auth, Signature, Reqs).err = <<>>
            /\ recoveredAddr(Auth, Signature, Reqs).addr = HexToAddress(Auth.From)
ValueBelowAmount ==
    /\ Binds /\ Payload.Payload.hasAuthorization
    /\ SetString(Auth.Value).ok /\ SetString(Reqs.Amount).ok
    /\ SetString(Auth.Value).val < SetString(Reqs.Amount).val

\* C14: for requirements r and an authorization a with a.value < r.amount as
\* integers, /verify never answers isValid=true, and when stage 3 is reached
\* it is the stage that rejects.
C14_AmountNeverBelow ==
    (freq.endpoint = "verify" /\ ValueBelowAmount)
    => /\ ~fresp.IsValid
       /\ Ran("amount") => /\ fpc = "done"
                           /\ fresp.InvalidReason = <<"insufficient amount">>
                           /\ ~Ran("time window")

C14_Witness ==
    /\ freq.endpoint = "verify" /\ ValueBelowAmount
    /\ stagesRun = <<"signature", "balance", "amount">>
    /\ fresp.status = 200 /\ fresp.InvalidReason = <<"insufficient amount">>

\* C15: whenever /verify answers isValid=true, all six stages have passed
\* and the payer of the response is authorization.from.
C15_ValidHasPayer ==
    (freq.endpoint = "verify" /\ fresp.IsValid)
    => /\ stagesRun = SixStages
       /\ fresp.Payer = Auth.From

\* C16: for a request whose scheme-network pair is not supported, /verify
\* performs no RPC operation (no dial, no balance read, no dry run), runs no
\* stage and answers 200 with isValid=false.
C16_UnsupportedNoRPC ==
    (freq.endpoint = "verify" /\ Binds
       /\ <<Reqs.Scheme, Reqs.Network>> \notin fconfig.Supported)
    => /\ rpcLog = <<>>
       /\ rpcClients \in {fconfig.Networks, {}}
       /\ stagesRun = <<>>
       /\ fpc \in {"idle", "done"}
       /\ fpc = "done" => (fresp.status = 200 /\ fresp.kind = "verify" /\ ~fresp.IsValid
                           /\ fresp.InvalidReason = <<"unsupported scheme-network">>)

C16_Witness ==
    /\ freq.endpoint = "verify" /\ fpc = "done"
    /\ <<Reqs.Scheme, Reqs.Network>> \notin fconfig.Supported
    /\ Reqs.Scheme = "exact" /\ Reqs.Network \in fconfig.Networks
    /\ rpcClients = {} /\ rpcLog = <<>>
    /\ fresp.InvalidReason = <<"unsupported scheme-network">>

\* C17: for a payload whose accepted scheme-network pair is not in the
\* supported set, or whose network has no configured RPC endpoint, the
\* facilitator never answers isValid=true, never answers success=true and
\* never broadcasts a transaction.
C17_OnlySupportedAccepted ==
    (Binds /\ (<<Payload.Accepted.Scheme, Payload.Accepted.Network>> \notin fconfig.Supported
                 \/ Payload.Accepted.Network \notin fconfig.Networks))
    => (~fresp.IsValid /\ ~fresp.Success /\ broadcasts = <<>>)

StructuredResult ==
    /\ fresp.status = 200
    /\ \/ freq.endpoint = "verify" /\ fresp.kind = "verify"
          /\ (fresp.IsValid <=> fresp.InvalidReason = <<>>)
       \/ freq.endpoint = "settle" /\ fresp.kind = "settle"
          /\ (fresp.Success <=> fresp.ErrorReason = <<>>)

\* C18 as stated: a body that is not valid JSON yields 400 and every other
\* request yields 200 with a structured result.
C18_OnlyInvalidJSONIs400 ==
    fpc = "done"
    => IF freq.body = "syntax error" THEN fresp.status = 400 ELSE StructuredResult

\* C18: a body that does not bind to the request object (not JSON, or JSON
\* whose members have the wrong types) yields 400; every other request
\* yields 200 with a structured result, whatever the payload holds and
\* whatever the RPC calls return; the handler always runs on to its answer.
C18_StructuredOrBadRequest ==
    /\ fpc = "done"
         => IF freq.body # "object"
              THEN fresp.status = 400 /\ fresp.kind = "error" /\ rpcLog = <<>>
              ELSE StructuredResult
    /\ fpc # "done" => ENABLED FacNext

C18_Witness ==
    /\ fpc = "done" /\ freq.endpoint = "settle" /\ Did("EstimateGas")
    /\ fresp.status = 200 /\ ~fresp.Success
    /\ fresp.ErrorReason = <<"failed to settle payment", "failed to estimate gas">>

\* C19: /settle broadcasts a transaction only for an authorization whose
\* signature recovers to authorization.from.
C19_NoBroadcastWithoutRecovery ==
    (freq.endpoint = "settle" /\ broadcasts # <<>>) => Recovers

C25_OneSelection ==
    \A r \in getRequirements(config, request.path) :
        /\ (Protected /\ request.paymentHeader = EmptyHeader /\ pc # "start")
              => UnmarshalPaymentRequired(Sent.body).Accepts = <<r>>
        /\ verifyCalls > 0 => requirements = r

\* the same for a path that has an exact route key or at most one matching
\* glob key, with the precedence of the three sources
MatchingGlobs ==
    { k \in RouteKeys(config) : ~Match(k, request.path).err /\ Match(k, request.path).matched }
PrecedenceWhenUnambiguous ==
    LET r == IF request.path \in RouteKeys(config) THEN RouteValue(config, request.path)
             ELSE IF MatchingGlobs # {} THEN RouteValue(config, CHOOSE k \in MatchingGlobs : TRUE)
             ELSE config.DefaultRequirements
    IN (request.path \in RouteKeys(config) \/ Cardinality(MatchingGlobs) <= 1)
         => /\ (Protected /\ request.paymentHeader = EmptyHeader /\ pc # "start")
                  => UnmarshalPaymentRequired(Sent.body).Accepts = <<r>>
            /\ verifyCalls > 0 => requirements = r

\* A pattern of the configuration that is well formed and matches the path,
\* segment by segment
SomePatternMatches ==
    \E i \in 1..Len(config.ProtectedPaths) :
        LET pattern == config.ProtectedPaths[i]
        IN /\ \A k \in 1..Len(pattern) : pattern[k] # "["
           /\ Len(pattern) = Len(request.path)
           /\ \A k \in 1..Len(pattern) : pattern[k] \in {"*", request.path[k]}

\* the request went to the downstream handler without the payment path
PassedStraight == handlerRuns = 1 /\ verifyCalls = 0
Untouched ==
    /\ verifyCalls = 0 /\ settleCalls = 0
    /\ ctxWriter = "writermem" /\ buffered = NoBuffer
    /\ responses = <<>> /\ keys = {} /\ requirements = ""
DiscoveryRequest == config.DiscoveryEnabled /\ request.path = WellKnown

EmptyListPassesThrough ==
    /\ config.ProtectedPaths = <<>> /\ request.paymentHeader # EmptyHeader
    /\ Has("handler_return") /\ Untouched

\* C27: the three keys of a verified payment are in the context exactly when
\* /verify answered isValid=true, and are set before the handler starts; the
\* three settlement keys are there only after /settle answered success=true,
\* and are set before the buffered response is flushed.
C27_ContextKeys ==
    LET verified == {"x402_payment_verified", "x402_payment_header",
                     "x402_payment_requirements"}
        settlement == {"x402_settlement_tx", "x402_settlement_network",
                       "x402_settlement_payer"}
    IN /\ IF Has("verify_valid") THEN verified \subseteq keys ELSE keys \cap verified = {}
       /\ Has("verify_valid") => verifyResp.err = "" /\ verifyResp.IsValid
       /\ (Protected /\ Has("handler_start"))
            => /\ verified \subseteq keys
               /\ Pos("verify_valid") < Pos("set_verified")
               /\ Pos("set_verified") < Pos("handler_start")
       /\ IF Has("settle_success") THEN settlement \subseteq keys
          ELSE keys \cap settlement = {}
       /\ Has("settle_success")
            => /\ settleResp.err = "" /\ settleResp.Success
               /\ Pos("settle_success") < Pos("set_settlement")
               /\ Pos("set_settlement") < Pos("flush")
       /\ keys \subseteq verified \cup settlement

C27_Witness ==
    /\ Terminal /\ Has("settle_success")
    /\ keys = {"x402_payment_verified", "x402_payment_header", "x402_payment_requirements",
               "x402_settlement_tx", "x402_settlement_network", "x402_settlement_payer"}

(***************************************************************************)
(* The library operations on their own.  One behaviour of LibSpec is one   *)
(* use of one of them: the payload command signing an authorization that   *)
(* the verifier then recovers the signer of, a payload encoded into a      *)
(* header and decoded again, a payment generated by the resource client,   *)
(* a facilitator configuration validated.                                  *)
(***************************************************************************)
\* What the payload command is given: flags or the members of a requirements
\* file (cmd/x402cli/payload.go)
SignInputs ==
    [ auth    : [ From : {Alice, Mallory}, To : {Merchant, MerchantChecksum},
                  Value : {"10", "x", "-1"}, ValidAfter : {5, 0 - 5}, ValidBefore : {7},
                  Nonce : { [hex |-> TRUE, len |-> 32], [hex |-> TRUE, len |-> 31],
                            [hex |-> TRUE, len |-> 33], [hex |-> FALSE, len |-> 0] } ],
      key     : {Alice, Mallory},
      asset   : {Usdc, OtherContract},
      name    : {"USD Coin", ""},
      version : {"2"},
      network : {"eip155:8453", "eip155:1"} ]

\* the requirements carrying the network, asset and domain the signer was given
RequirementsFor(in) ==
    [Scheme |-> "exact", Network |-> in.network, Amount |-> "10", Asset |-> in.asset,
     PayTo |-> Merchant, Extra |-> [name |-> in.name, version |-> in.version]]

\* x402cli payload: utils.SignEIP3009 over the authorization
PayloadCommand ==
    /\ libCall = "sign" /\ cpc = "start"
    /\ signOut' = SignEIP3009(signIn.auth, signIn.key, signIn.asset, signIn.name,
                              signIn.version, GetChainID(signIn.network).id)
    /\ cpc' = IF signOut'.err = <<>> THEN "signed" ELSE "done"
    /\ UNCHANGED <<concVars, gatewayVars, facVars, libCall, signIn, recovered, payloadIn, encoded,
                   decoded, genIn, generated, cfgIn, validated>>

\* the verifier recovering the signer of that signature
VerifierRecovers ==
    /\ libCall = "sign" /\ cpc = "signed"
    /\ recovered' = recoveredAddr(signIn.auth, signOut.sig, RequirementsFor(signIn))
    /\ cpc' = "done"
    /\ UNCHANGED <<concVars, gatewayVars, facVars, libCall, signIn, signOut, payloadIn, encoded,
                   decoded, genIn, generated, cfgIn, validated>>

\* GeneratePayment, the encoding: json.Marshal, then base64
EncodeHeader ==
    /\ libCall = "encode" /\ cpc = "start"
    /\ encoded' = Base64Encode(MarshalPayload(payloadIn))
    /\ cpc' = "encoded"
    /\ UNCHANGED <<concVars, gatewayVars, facVars, libCall, signIn, signOut, recovered, payloadIn,
                   decoded, genIn, generated, cfgIn, validated>>

\* headers that are not the encoding of a payload: not base64, base64 of
\* something that is not JSON, and the empty string
NotEncodings == { Plain("!"), Base64Encode(<<Byte("{")>>), EmptyHeader }

\* utils.DecodePaymentHeader with the payload it returns; nil is the nil pointer
DecodeHeader ==
    /\ libCall \in {"encode", "decode"} /\ cpc = "encoded"
    /\ LET d == DecodePaymentHeader(encoded)
       IN decoded' = IF d.err # "" THEN [err |-> d.err, nil |-> TRUE, payload |-> <<>>]
                     ELSE [err |-> "", nil |-> FALSE, payload |-> UnmarshalPayload(d.payload)]
    /\ cpc' = "done"
    /\ UNCHANGED <<concVars, gatewayVars, facVars, libCall, signIn, signOut, recovered, payloadIn,
                   encoded, genIn, generated, cfgIn, validated>>

\* What GeneratePayment is given: the client's key, the requirements, the
\* clock at its two readings (tick is the time between them) and whether
\* crypto/rand delivers.
ZeroAddress == <<"0", "lower">>
GenInputs ==
    [ key    : {Alice, ZeroAddress},
      now    : {10000, 20000},
      tick   : {0, 1},
      randOK : BOOLEAN,
      requirements :
        [ Scheme : {"exact", "upto"}, Network : {"eip155:8453", "base"},
          Amount : {"10", "x"}, Asset : {Usdc, ZeroAddress},
          PayTo : {Merchant, MerchantChecksum, ZeroAddress},
          MaxTimeoutSeconds : {0, 30, 120, 3600, 7200},
          Extra : { [name |-> "USD Coin", version |-> "2"], [name |-> "USDC", version |-> "2"] } ] ]

\* common.Address.Hex: the checksum spelling
Hex(addr) == <<addr, "checksum">>

\* client.CreateEIP3009Authorization: valid from one hour ago to one hour
\* from now, signed under the domain "USDC" version "2"
Hour == 3600
CreateEIP3009Authorization(key, from, to, value, usdcContract, chainID, now, tick, randOK) ==
    IF ~randOK THEN [err |-> <<"failed to generate nonce">>, auth |-> NoAuth, sig |-> NoSignature]
    ELSE LET validAfter == now - Hour
             validBefore == now + tick + Hour
         IN [ err  |-> <<>>,
              auth |-> [From |-> Hex(from), To |-> Hex(to), Value |-> value,
                        ValidAfter |-> validAfter, ValidBefore |-> validBefore,
                        Nonce |-> [hex |-> TRUE, len |-> 32]],
              sig  |-> [present |-> TRUE, hex |-> TRUE, len |-> 65,
                        signer |-> HexToAddress(key),
                        signed |-> << "USDC", "2", Magnitude(chainID), usdcContract, from, to,
                                      Magnitude(SetString(value).val), Magnitude(validAfter),
                                      Magnitude(validBefore),
                                      NonceWord([hex |-> TRUE, len |-> 32], "none") >>] ]

\* ResourceClient.GeneratePayment up to the payload it encodes
GeneratePayment(in) ==
    LET r == in.requirements
        none == [auth |-> NoAuth, sig |-> NoSignature, accepted |-> r]
    IN IF in.key = ZeroAddress
         THEN [err |-> <<"cannot generate payment: client was created without a private key">>] @@ none
       ELSE IF r.Scheme # "exact" THEN [err |-> <<"unsupported payment scheme">>] @@ none
       ELSE IF ~SetString(r.Amount).ok THEN [err |-> <<"invalid amount">>] @@ none
       ELSE IF HexToAddress(r.PayTo) = HexToAddress(ZeroAddress)
         THEN [err |-> <<"invalid recipient address">>] @@ none
       ELSE IF HexToAddress(r.Asset) = HexToAddress(ZeroAddress)
         THEN [err |-> <<"invalid asset address">>] @@ none
       ELSE IF GetChainID(r.Network).err # <<>>
         THEN [err |-> <<"failed to get chain id">> \o GetChainID(r.Network).err] @@ none
       ELSE LET a == CreateEIP3009Authorization(in.key, HexToAddress(in.key),
                         HexToAddress(r.PayTo), r.Amount, HexToAddress(r.Asset),
                         GetChainID(r.Network).id, in.now, in.tick, in.randOK)
            IN IF a.err # <<>>
                 THEN [err |-> <<"failed to create EIP-3009 authorization">> \o a.err] @@ none
               ELSE [err |-> <<>>, auth |-> a.auth, sig |-> a.sig, accepted |-> r]

GeneratePaymentCall ==
    /\ libCall = "generate" /\ cpc = "start"
    /\ generated' = GeneratePayment(genIn)
    /\ cpc' = "done"
    /\ UNCHANGED <<concVars, gatewayVars, facVars, libCall, signIn, signOut, recovered, payloadIn,
                   encoded, decoded, genIn, cfgIn, validated>>

\* FacilitatorConfig as LoadConfig hands it to Validate.  Networks is a map,
\* given as the set of its entries; Supported is a list.
Base == [name |-> "eip155:8453", RpcUrl |-> "https://mainnet.base.org", ChainId |-> "8453"]
LoadedConfigs ==
    [ Port           : {0, 1, 8080, 65535, 65536},
      Networks       : { {}, {Base}, {[Base EXCEPT !.ChainId = ""]},
                         {[Base EXCEPT !.RpcUrl = ""]},
                         {Base, [Base EXCEPT !.name = "eip155:1"]},
                         {[Base EXCEPT !.RpcUrl = ""], [name |-> "eip155:1", RpcUrl |-> "https://eth", ChainId |-> ""]} },
      Supported      : { <<>>, << [Scheme |-> "exact", Network |-> "eip155:8453"] >>,
                         << [Scheme |-> "", Network |-> "eip155:8453"] >>,
                         << [Scheme |-> "exact", Network |-> ""] >>,
                         << [Scheme |-> "exact", Network |-> "eip155:8453"],
                            [Scheme |-> "exact", Network |-> "eip155:1"] >> },
      TimeoutSeconds : {0, 120},
      MaxGasPrice    : {"", "10", "bad"},
      LogLevel       : {"debug", "info", "warn", "error", "trace", ""},
      PrivateKey     : BOOLEAN ]

\* the first pair of the supported list that is refused, 0 if there is none
FirstBadPair(c) ==
    LET bad == { i \in 1..Len(c.Supported) :
                   \/ c.Supported[i].Scheme = ""
                   \/ c.Supported[i].Network = ""
                   \/ ~\E n \in c.Networks : n.name = c.Supported[i].Network }
    IN IF bad = {} THEN 0 ELSE CHOOSE i \in bad : \A j \in bad : i <= j

\* FacilitatorConfig.Validate: the errors it may return, none for nil.  The
\* networks map is walked in an order of Go's choosing.
Validate(c) ==
    IF c.Port <= 0 \/ c.Port > 65535 THEN {"invalid server port"}
    ELSE IF c.Networks = {} THEN {"at least one network must be configured"}
    ELSE IF \E n \in c.Networks : n.RpcUrl = "" \/ n.ChainId = ""
      THEN { IF n.RpcUrl = "" THEN "network missing rpc_url" ELSE "network missing chain_id" :
               n \in { m \in c.Networks : m.RpcUrl = "" \/ m.ChainId = "" } }
    ELSE IF FirstBadPair(c) # 0
      THEN LET pair == c.Supported[FirstBadPair(c)]
           IN IF pair.Scheme = "" THEN {"supported scheme cannot be empty"}
              ELSE IF pair.Network = "" THEN {"supported network cannot be empty"}
              ELSE {"supported network is not defined in networks config"}
    ELSE IF c.TimeoutSeconds <= 0 THEN {"transaction timeout must be positive"}
    ELSE IF c.MaxGasPrice = "" THEN {"transaction max_gas_price must be set"}
    ELSE IF c.LogLevel \notin {"debug", "info", "warn", "error"} THEN {"invalid log level"}
    ELSE IF ~c.PrivateKey THEN {"private key must be set"}
    ELSE {}

ValidateConfig ==
    /\ libCall = "validate" /\ cpc = "start"
    /\ \E e \in (IF Validate(cfgIn) = {} THEN {<<>>} ELSE { <<m>> : m \in Validate(cfgIn) }) :
         validated' = [err |-> e]
    /\ cpc' = "done"
    /\ UNCHANGED <<concVars, gatewayVars, facVars, libCall, signIn, signOut, recovered, payloadIn,
                   encoded, decoded, genIn, generated, cfgIn>>

LibInit ==
    /\ GatewayIdle
    /\ FacilitatorIdle
    /\ ConcurrentIdle
    /\ signOut = NoSignOut
    /\ recovered = NoRecovered
    /\ decoded = <<>>
    /\ generated = <<>>
    /\ validated = <<>>
    /\ \/ /\ libCall = "sign" /\ cpc = "start"
          /\ signIn \in SignInputs
          /\ payloadIn = <<>> /\ encoded = EmptyHeader /\ genIn = <<>> /\ cfgIn = <<>>
       \/ /\ libCall = "encode" /\ cpc = "start"
          /\ payloadIn \in Payloads
          /\ signIn = NoSignIn /\ encoded = EmptyHeader /\ genIn = <<>> /\ cfgIn = <<>>
       \/ /\ libCall = "decode" /\ cpc = "encoded"
          /\ encoded \in NotEncodings
          /\ signIn = NoSignIn /\ payloadIn = <<>> /\ genIn = <<>> /\ cfgIn = <<>>
       \/ /\ libCall = "generate" /\ cpc = "start"
          /\ genIn \in GenInputs
          /\ signIn = NoSignIn /\ payloadIn = <<>> /\ encoded = EmptyHeader /\ cfgIn = <<>>
       \/ /\ libCall = "validate" /\ cpc = "start"
          /\ cfgIn \in LoadedConfigs
          /\ signIn = NoSignIn /\ payloadIn = <<>> /\ encoded = EmptyHeader /\ genIn = <<>>

LibNext ==
    \/ PayloadCommand
    \/ VerifierRecovers
    \/ EncodeHeader
    \/ DecodeHeader
    \/ GeneratePaymentCall
    \/ ValidateConfig

LibSpec == LibInit /\ [][LibNext]_vars

\* C21: whenever the payload command has produced a signature, the verifier,
\* given the same authorization and requirements with the same network, asset
\* and domain name and version, recovers the address of the signing key.
C21_SignRecover ==
    (libCall = "sign" /\ cpc = "done" /\ signOut.err = <<>>)
        => /\ recovered.err = <<>>
           /\ recovered.addr = HexToAddress(signIn.key)

\* the same for an authorization the verifier's typed data can carry: a nonce
\* of 32 bytes, no negative number and a domain name
WellFormedSignIn ==
    /\ signIn.auth.Nonce = [hex |-> TRUE, len |-> 32]
    /\ SetString(signIn.auth.Value).val >= 0
    /\ signIn.auth.ValidAfter >= 0 /\ signIn.auth.ValidBefore >= 0
    /\ signIn.name # "" /\ signIn.version # ""
SignRecoverWellFormed ==
    (libCall = "sign" /\ cpc = "done" /\ signOut.err = <<>> /\ WellFormedSignIn)
        => /\ recovered.err = <<>>
           /\ recovered.addr = HexToAddress(signIn.key)

\* C22: a payload encoded into a header and decoded again is the payload that
\* was encoded; a header that is not base64 or not JSON is answered with an
\* error and no payload.
C22_RoundTrip ==
    /\ (libCall = "encode" /\ cpc = "done")
          => decoded.err = "" /\ ~decoded.nil /\ decoded.payload = payloadIn
    /\ (libCall = "decode" /\ cpc = "done") => decoded.err # "" /\ decoded.nil

\* the same for payloads whose numbers a float64 holds exactly
RoundTripExactNumbers ==
    /\ (libCall = "encode" /\ cpc = "done"
          /\ Float64(payloadIn.Payload.validBefore) = payloadIn.Payload.validBefore)
          => decoded.err = "" /\ ~decoded.nil /\ decoded.payload = payloadIn
    /\ (libCall = "decode" /\ cpc = "done") => decoded.err # "" /\ decoded.nil

\* what the specification lists as required of a facilitator configuration
ListedRequirements(c) ==
    /\ c.Port >= 1 /\ c.Port <= 65535
    /\ c.Networks # {} /\ \A n \in c.Networks : n.RpcUrl # ""
    /\ \A i \in 1..Len(c.Supported) :
         /\ c.Supported[i].Scheme # ""
         /\ \E n \in c.Networks : n.name = c.Supported[i].Network
    /\ c.TimeoutSeconds > 0
    /\ c.MaxGasPrice # ""
    /\ c.LogLevel \in {"debug", "info", "warn", "error"}
    /\ c.PrivateKey

\* C23: validation of a facilitator configuration succeeds exactly when the
\* port is in 1..65535, there is a network and each has an RPC URL, every
\* supported pair has a scheme and a configured network, the timeout is
\* positive, maxGasPrice is set, the log level is known and the key is there.
C23_ValidateIff ==
    (libCall = "validate" /\ cpc = "done")
        => (validated.err = <<>> <=> ListedRequirements(cfgIn))

\* the same with a chain id asked of every network
ValidateIffWithChainId ==
    (libCall = "validate" /\ cpc = "done")
        => (validated.err = <<>>
              <=> ListedRequirements(cfgIn) /\ \A n \in cfgIn.Networks : n.ChainId # "")

\* C24: the validity window GeneratePayment chooses stays within
\* maxTimeoutSeconds, from now to validBefore and from validAfter to
\* validBefore.
C24_WindowWithinTimeout ==
    (libCall = "generate" /\ cpc = "done" /\ generated.err = <<>>)
        => /\ generated.auth.ValidBefore - genIn.now
                <= genIn.requirements.MaxTimeoutSeconds
           /\ generated.auth.ValidBefore - generated.auth.ValidAfter
                <= genIn.requirements.MaxTimeoutSeconds

(***************************************************************************)
(* The facilitator serving requests concurrently: the pool of RPC          *)
(* connections (DialRPCClients, getRPCClient, closeAllRPCClients), the     *)
(* settlements of several requests against one node, and the release of    *)
(* the 2xx response by the gateway.                                        *)
(***************************************************************************)
MaxMainOps == 2
Authorizations == {"authA", "authB"}
Job(job, network, auth) ==
    [job |-> job, phase |-> IF job = "pay" THEN "verify" ELSE "get", pc |-> "start",
     network |-> network, auth |-> auth, client |-> 0, gen |-> 0, via |-> "",
     nonce |-> 0, result |-> ""]

\* a goroutine that fetches the connection of a network
GetJobs == { Job("get", n, "") : n \in PoolNetworks }

\* a goroutine that serves a paid request: /verify, the handler, /settle, the
\* release of the response
PayJobs == { Job("pay", "eip155:8453", a) : a \in Authorizations }

\* the pool is rewritten by DialRPCClients and by closeAllRPCClients: the
\* number of times that has happened
Generation == Len(mainOps)
LockFree == rpcClientsMu.writer = 0 /\ rpcClientsMu.readers = {}

RECURSIVE SetToSeq(_)
SetToSeq(S) == IF S = {} THEN <<>>
               ELSE LET x == CHOOSE y \in S : TRUE IN <<x>> \o SetToSeq(S \ {x})

\* DialRPCClients under the write lock: the networks in reached were dialed
\* and stored before the walk of the map ended or met a dial that failed
DialRPCClients(p, cs, gen, reached) ==
    LET order == SetToSeq(reached)
        id(n) == Len(cs) + (CHOOSE i \in 1..Len(order) : order[i] = n)
    IN [pool  |-> [n \in DOMAIN p |-> IF n \in reached THEN id(n) ELSE p[n]],
        conns |-> cs \o [i \in 1..Len(order) |->
                            [network |-> order[i], closed |-> FALSE, gen |-> gen,
                             by |-> "DialRPCClients"]]]

\* closing every pooled connection and keeping the map
closeAllRPCClientsMapKept(p, cs) ==
    [pool  |-> p,
     conns |-> [i \in 1..Len(cs) |->
                  IF \E n \in DOMAIN p : p[n] = i THEN [cs[i] EXCEPT !.closed = TRUE]
                  ELSE cs[i]]]

\* closeAllRPCClients under the write lock
closeAllRPCClients(p, cs) ==
    [pool  |-> [n \in DOMAIN p |-> 0],
     conns |-> [i \in 1..Len(cs) |->
                  IF \E n \in DOMAIN p : p[n] = i THEN [cs[i] EXCEPT !.closed = TRUE]
                  ELSE cs[i]]]

\* getRPCClient under the write lock without the second look at the map
getRPCClientLockedNoSecondLook(p, cs, network, gen, dialOK) ==
    IF GetNetworkConfig([Networks |-> PoolNetworks], network) # <<>>
      THEN [err |-> GetNetworkConfig([Networks |-> PoolNetworks], network), client |-> 0,
            pool |-> p, conns |-> cs]
    ELSE IF ~dialOK
      THEN [err |-> <<"failed to connect to RPC">>, client |-> 0, pool |-> p, conns |-> cs]
    ELSE [err |-> <<>>, client |-> Len(cs) + 1,
          pool |-> [p EXCEPT ![network] = Len(cs) + 1],
          conns |-> Append(cs, [network |-> network, closed |-> FALSE, gen |-> gen,
                                by |-> "getRPCClient"])]

\* getRPCClient under the write lock: the second look, then GetNetworkConfig,
\* ethclient.Dial and the store
getRPCClientLocked(p, cs, network, gen, dialOK) ==
    IF p[network] # 0 THEN [err |-> <<>>, client |-> p[network], pool |-> p, conns |-> cs]
    ELSE IF GetNetworkConfig([Networks |-> PoolNetworks], network) # <<>>
      THEN [err |-> GetNetworkConfig([Networks |-> PoolNetworks], network), client |-> 0,
            pool |-> p, conns |-> cs]
    ELSE IF ~dialOK
      THEN [err |-> <<"failed to connect to RPC">>, client |-> 0, pool |-> p, conns |-> cs]
    ELSE [err |-> <<>>, client |-> Len(cs) + 1,
          pool |-> [p EXCEPT ![network] = Len(cs) + 1],
          conns |-> Append(cs, [network |-> network, closed |-> FALSE, gen |-> gen,
                                by |-> "getRPCClient"])]

\* the main goroutine calls DialRPCClients
MainDialRPCClients ==
    /\ Len(mainOps) < MaxMainOps /\ LockFree
    /\ \E reached \in SUBSET PoolNetworks :
         LET r == DialRPCClients(rpcPool, conns, Generation + 1, reached)
         IN /\ rpcPool' = r.pool
            /\ conns' = r.conns
            /\ mainOps' = Append(mainOps, IF reached = PoolNetworks THEN "DialRPCClients"
                                          ELSE "DialRPCClients failed")
    /\ UNCHANGED <<gatewayVars, facVars, libVars, gor, rpcClientsMu, node, sends, released>>

\* the main goroutine calls Close
MainClose ==
    /\ Len(mainOps) < MaxMainOps /\ LockFree
    /\ LET r == closeAllRPCClients(rpcPool, conns)
       IN rpcPool' = r.pool /\ conns' = r.conns
    /\ mainOps' = Append(mainOps, "Close")
    /\ UNCHANGED <<gatewayVars, facVars, libVars, gor, rpcClientsMu, node, sends, released>>

\* getRPCClient: rpcClientsMu.RLock()
PoolRLock ==
    \E g \in Goroutines :
      /\ gor[g].pc = "start"
      /\ rpcClientsMu.writer = 0
      /\ rpcClientsMu' = [rpcClientsMu EXCEPT !.readers = @ \cup {g}]
      /\ gor' = [gor EXCEPT ![g].pc = "rlocked"]
      /\ UNCHANGED <<gatewayVars, facVars, libVars, rpcPool, conns, mainOps, node, sends,
                     released>>

\* getRPCClient: the first look at the map, and RUnlock
PoolRead ==
    \E g \in Goroutines :
      /\ gor[g].pc = "rlocked"
      /\ rpcClientsMu' = [rpcClientsMu EXCEPT !.readers = @ \ {g}]
      /\ gor' = IF rpcPool[gor[g].network] # 0
                  THEN [gor EXCEPT ![g].pc = "got", ![g].client = rpcPool[gor[g].network],
                                   ![g].gen = Generation, ![g].via = "first look"]
                  ELSE [gor EXCEPT ![g].pc = "miss"]
      /\ UNCHANGED <<gatewayVars, facVars, libVars, rpcPool, conns, mainOps, node, sends,
                     released>>

\* getRPCClient: rpcClientsMu.Lock()
PoolLock ==
    \E g \in Goroutines :
      /\ gor[g].pc = "miss"
      /\ LockFree
      /\ rpcClientsMu' = [rpcClientsMu EXCEPT !.writer = g]
      /\ gor' = [gor EXCEPT ![g].pc = "locked"]
      /\ UNCHANGED <<gatewayVars, facVars, libVars, rpcPool, conns, mainOps, node, sends,
                     released>>

\* getRPCClient under the write lock, and the deferred Unlock
PoolLocked ==
    \E g \in Goroutines, dialOK \in BOOLEAN :
      LET r == getRPCClientLocked(rpcPool, conns, gor[g].network, Generation, dialOK) IN
      /\ gor[g].pc = "locked"
      /\ rpcPool' = r.pool
      /\ conns' = r.conns
      /\ rpcClientsMu' = [rpcClientsMu EXCEPT !.writer = 0]
      /\ gor' = IF r.err = <<>>
                  THEN [gor EXCEPT ![g].pc = "got", ![g].client = r.client,
                                   ![g].gen = Generation,
                                   ![g].via = IF r.conns = conns THEN "second look"
                                              ELSE "dial"]
                  ELSE [gor EXCEPT ![g].pc = "done", ![g].result = "failed to connect"]
      /\ UNCHANGED <<gatewayVars, facVars, libVars, mainOps, node, sends, released>>

\* /verify for the request: the dry run is an eth_call on the latest block
\* (CallContract with a nil block number); when it passes the gateway runs
\* the handler, which answers 2xx, and calls /settle
RequestVerify ==
    \E g \in Goroutines :
      /\ gor[g].phase = "verify" /\ gor[g].pc = "got"
      /\ gor' = IF conns[gor[g].client].closed \/ gor[g].auth \in node.executed
                  THEN [gor EXCEPT ![g].pc = "done", ![g].result = "invalid"]
                  ELSE [gor EXCEPT ![g].phase = "settle", ![g].pc = "start"]
      /\ UNCHANGED <<gatewayVars, facVars, libVars, rpcPool, rpcClientsMu, conns, mainOps,
                     node, sends, released>>

\* client.PendingNonceAt: the number of transactions of the signer the node
\* holds, mined or pending
RequestPendingNonce ==
    \E g \in Goroutines :
      /\ gor[g].phase = "settle" /\ gor[g].pc = "got"
      /\ gor' = IF conns[gor[g].client].closed
                  THEN [gor EXCEPT ![g].pc = "done", ![g].result = "failed to get nonce"]
                  ELSE [gor EXCEPT ![g].pc = "EstimateGas", ![g].nonce = Len(node.txs)]
      /\ UNCHANGED <<gatewayVars, facVars, libVars, rpcPool, rpcClientsMu, conns, mainOps,
                     node, sends, released>>

\* the authorizations the token has executed, on the latest block or with
\* the pending transactions applied
ExecutedAt(view) ==
    IF view = "latest" THEN node.executed
    ELSE node.executed \cup { node.txs[i].auth : i \in (node.mined + 1)..Len(node.txs) }

\* client.SuggestGasPrice within the ceiling, then client.EstimateGas; the
\* node estimates on the latest block or on its pending state, as it is
\* built
RequestEstimateGas ==
    \E g \in Goroutines, view \in {"latest", "pending"} :
      /\ gor[g].pc = "EstimateGas"
      /\ gor' = IF conns[gor[g].client].closed \/ gor[g].auth \in ExecutedAt(view)
                  THEN [gor EXCEPT ![g].pc = "done", ![g].result = "failed to estimate gas"]
                  ELSE [gor EXCEPT ![g].pc = "SendTransaction"]
      /\ UNCHANGED <<gatewayVars, facVars, libVars, rpcPool, rpcClientsMu, conns, mainOps,
                     node, sends, released>>

\* SignTx and client.SendTransaction.  The node takes a transaction with the
\* next nonce; one with the nonce of a pending transaction is refused, or
\* replaces it when its gas price is enough above; one with a mined nonce
\* is refused.
RequestSendTransaction ==
    \E g \in Goroutines, replace \in BOOLEAN :
      LET n == gor[g].nonce
          t == [auth |-> gor[g].auth, by |-> g]
          taken == /\ ~conns[gor[g].client].closed
                   /\ \/ n = Len(node.txs)
                      \/ n < Len(node.txs) /\ n >= node.mined /\ replace
      IN /\ gor[g].pc = "SendTransaction"
         /\ n = Len(node.txs) => replace
         /\ node' = IF ~taken THEN node
                     ELSE IF n = Len(node.txs) THEN [node EXCEPT !.txs = Append(@, t)]
                     ELSE [node EXCEPT !.txs[n + 1] = t]
         /\ sends' = Append(sends, [by |-> g, nonce |-> n, taken |-> taken])
         /\ gor' = IF taken THEN [gor EXCEPT ![g].pc = "settled", ![g].result = "success"]
                     ELSE [gor EXCEPT ![g].pc = "done",
                                      ![g].result = "failed to send transaction"]
         /\ UNCHANGED <<gatewayVars, facVars, libVars, rpcPool, rpcClientsMu, conns, mainOps,
                        released>>

\* /settle answered success=true: the gateway flushes the buffered 2xx
RequestRelease ==
    \E g \in Goroutines :
      /\ gor[g].pc = "settled"
      /\ released' = released \cup {g}
      /\ gor' = [gor EXCEPT ![g].pc = "done"]
      /\ UNCHANGED <<gatewayVars, facVars, libVars, rpcPool, rpcClientsMu, conns, mainOps,
                     node, sends>>

\* the node mines the signer's next pending transaction; the token executes
\* an authorization once and reverts on the second
NodeMines ==
    /\ node.mined < Len(node.txs)
    /\ node' = [node EXCEPT !.mined = @ + 1,
                            !.executed = @ \cup {node.txs[node.mined + 1].auth}]
    /\ UNCHANGED <<gatewayVars, facVars, libVars, gor, rpcPool, rpcClientsMu, conns,
                   mainOps, sends, released>>

ConcInit ==
    /\ GatewayIdle
    /\ FacilitatorIdle
    /\ LibraryIdle
    /\ gor \in [Goroutines -> PayJobs]
    /\ rpcPool = [n \in PoolNetworks |-> 0]
    /\ rpcClientsMu = [writer |-> 0, readers |-> {}]
    /\ conns = <<>>
    /\ mainOps = <<>>
    /\ node = [txs |-> <<>>, mined |-> 0, executed |-> {}]
    /\ sends = <<>>
    /\ released = {}

ConcNext ==
    \/ MainDialRPCClients
    \/ MainClose
    \/ PoolRLock
    \/ PoolRead
    \/ PoolLock
    \/ PoolLocked
    \/ RequestVerify
    \/ RequestPendingNonce
    \/ RequestEstimateGas
    \/ RequestSendTransaction
    \/ RequestRelease
    \/ NodeMines

ConcSpec == ConcInit /\ [][ConcNext]_vars

\* the pool on its own: concurrent callers of getRPCClient while the main
\* goroutine dials and closes
PoolInit ==
    /\ GatewayIdle
    /\ FacilitatorIdle
    /\ LibraryIdle
    /\ gor \in [Goroutines -> GetJobs]
    /\ rpcPool = [n \in PoolNetworks |-> 0]
    /\ rpcClientsMu = [writer |-> 0, readers |-> {}]
    /\ conns = <<>>
    /\ mainOps = <<>>
    /\ node = [txs |-> <<>>, mined |-> 0, executed |-> {}]
    /\ sends = <<>>
    /\ released = {}

PoolNext ==
    \/ MainDialRPCClients
    \/ MainClose
    \/ PoolRLock
    \/ PoolRead
    \/ PoolLock
    \/ PoolLocked

PoolSpec == PoolInit /\ [][PoolNext]_vars

(***************************************************************************)
(* The pool of RPC connections under concurrent callers.                   *)
(***************************************************************************)
Holds(g) == gor[g].client # 0 /\ gor[g].via # ""
DialedByGet(i) == conns[i].by = "getRPCClient"

\* C32: under any interleaving of concurrent getRPCClient calls, at most one
\* connection is dialed and stored per network until the pool is next
\* rewritten, and every caller for that network receives that connection
C32_OneConnectionPerKey ==
    /\ \A i, j \in DOMAIN conns :
         (/\ DialedByGet(i) /\ DialedByGet(j)
          /\ conns[i].network = conns[j].network
          /\ conns[i].gen = conns[j].gen) => i = j
    /\ \A g, h \in Goroutines :
         (/\ Holds(g) /\ Holds(h)
          /\ gor[g].network = gor[h].network
          /\ gor[g].gen = gor[h].gen) => gor[g].client = gor[h].client
    /\ \A g \in Goroutines :
         Holds(g) => /\ conns[gor[g].client].network = gor[g].network
                     /\ gor[g].via = "dial" => DialedByGet(gor[g].client)

\* two callers missed on the first look; one dialed, the other found the
\* stored connection on its second look
C32_Witness ==
    \E g, h \in Goroutines :
      /\ gor[g].via = "dial" /\ gor[h].via = "second look"
      /\ gor[g].network = gor[h].network
      /\ gor[g].gen = gor[h].gen
      /\ gor[g].client = gor[h].client

(***************************************************************************)
(* The life of the pool: DialRPCClients, getRPCClient, Close.              *)
(***************************************************************************)
Pooled(i) == \E n \in PoolNetworks : rpcPool[n] = i
PoolInv ==
    \A n \in PoolNetworks :
      rpcPool[n] # 0 => /\ rpcPool[n] \in DOMAIN conns
                         /\ conns[rpcPool[n]].network = n
                         /\ ~conns[rpcPool[n]].closed
DialedAll == Len(mainOps') = Len(mainOps) + 1 /\ mainOps'[Len(mainOps')] = "DialRPCClients"
ClosedAll == Len(mainOps') = Len(mainOps) + 1 /\ mainOps'[Len(mainOps')] = "Close"
Returned(g) == gor[g].pc \in {"rlocked", "locked"} /\ gor'[g].pc = "got"
PoolStep ==
    /\ DialedAll =>
         /\ \A n \in PoolNetworks :
              /\ rpcPool'[n] \in DOMAIN conns' \ DOMAIN conns
              /\ conns'[rpcPool'[n]].network = n
              /\ ~conns'[rpcPool'[n]].closed
         /\ \A n, m \in PoolNetworks : rpcPool'[n] = rpcPool'[m] => n = m
    /\ ClosedAll =>
         /\ \A i \in DOMAIN conns : Pooled(i) => conns'[i].closed
         /\ \A n \in PoolNetworks : rpcPool'[n] = 0
    /\ \A g \in Goroutines :
         Returned(g) =>
           IF rpcPool[gor[g].network] # 0
             THEN /\ gor'[g].client = rpcPool[gor[g].network]
                  /\ conns' = conns
             ELSE /\ gor'[g].client \in DOMAIN conns' \ DOMAIN conns
                  /\ ~conns'[gor'[g].client].closed
                  /\ rpcPool'[gor[g].network] = gor'[g].client

\* C38: after DialRPCClients succeeds the pool holds one open connection for
\* every configured network and getRPCClient returns it without dialing;
\* after closeAllRPCClients every pooled connection is closed and the pool
\* is empty, and the next getRPCClient dials a fresh connection
C38_PoolLifecycle == [](PoolInv) /\ [][PoolStep]_vars

\* the pool was dialed, a caller was handed the pooled connection, the pool
\* was closed, and the next caller dialed a fresh one
C38_Witness ==
    /\ mainOps = <<"DialRPCClients", "Close">>
    /\ \E g, h \in Goroutines :
         /\ gor[g].via = "first look" /\ gor[g].gen = 1
         /\ conns[gor[g].client].by = "DialRPCClients"
         /\ conns[gor[g].client].closed
         /\ gor[h].via = "dial" /\ gor[h].gen = 2
         /\ gor[h].network = gor[g].network
         /\ ~conns[gor[h].client].closed
         /\ rpcPool[gor[h].network] = gor[h].client

(***************************************************************************)
(* Concurrent settlements by the one signer.                               *)
(***************************************************************************)
\* between the read of the pending nonce and the broadcast
InSendSection(g) == gor[g].pc \in {"EstimateGas", "SendTransaction"}

\* C31: the section from reading the pending nonce to broadcasting of one
\* settlement never interleaves with that of another, and no two broadcasts
\* by the facilitator use the same account nonce
C31_SettlementsSerialize ==
    /\ \A g, h \in Goroutines : InSendSection(g) /\ InSendSection(h) => g = h
    /\ \A i, j \in DOMAIN sends : sends[i].nonce = sends[j].nonce => i = j

\* two settlements are in the section at once and hold the same nonce
InterleavedSettlements ==
    \E g, h \in Goroutines :
      /\ g # h /\ InSendSection(g) /\ InSendSection(h)
      /\ gor[g].nonce = gor[h].nonce

\* two transactions were broadcast with one nonce; the node refused the
\* second, for a payment that had been verified
SameNonceBroadcastTwice ==
    \E i, j \in DOMAIN sends :
      /\ i < j /\ sends[i].nonce = sends[j].nonce
      /\ sends[i].taken /\ ~sends[j].taken
      /\ gor[sends[j].by].auth # gor[sends[i].by].auth

\* two transactions were broadcast with one nonce; the second took the place
\* of the first, whose request had been answered success
ReplacedAfterSuccess ==
    \E g \in released : \A i \in DOMAIN node.txs : node.txs[i].by # g

(***************************************************************************)
(* One signed authorization presented by several requests.                 *)
(***************************************************************************)
\* C33: across requests that carry the same payment header, at most one has
\* its 2xx response released to the client
C33_SingleUse ==
    \A g, h \in released : gor[g].auth = gor[h].auth => g = h

\* two requests with one authorization were both released, each settlement
\* with a nonce of its own; the token executes the authorization once
ReleasedTwiceForOneAuthorization ==
    \E g, h \in released :
      /\ g # h /\ gor[g].auth = gor[h].auth
      /\ gor[g].nonce # gor[h].nonce
      /\ node.mined = Len(node.txs)
      /\ Cardinality(node.executed) = 1

\* once the token has executed an authorization, /verify refuses it
RefusedOnceExecuted ==
    \A g \in Goroutines :
      (gor[g].phase = "verify" /\ gor[g].pc = "done" /\ gor[g].result = "invalid"
         /\ ~conns[gor[g].client].closed)
        => gor[g].auth \in node.executed

(***************************************************************************)
(* The replaced response writer.                                           *)
(***************************************************************************)
\* C29: while the handler of a protected request runs on the
\* bufferedWriter, and until the middleware flushes, nothing has reached the
\* client's writer, and every byte the handler has emitted is in the buffer
\* unless the buffer has overflowed.
C29_AllOutputBuffered ==
    (pc = "handler" /\ ctxWriter = "buffered")
      => /\ ~writermem.written
         /\ Sent = NothingSent
         /\ (buffered.overflow \/ Len(buffered.body) = produced)

\* Bytes of the handler are at the client, uncounted, before any flush.
WrittenPastBuffer ==
    /\ pc = "handler" /\ ctxWriter = "buffered"
    /\ buffered.maxSize = MaxBuf /\ ~buffered.overflow
    /\ Len(Sent.body) > MaxBuf

(***************************************************************************)
(* The order of the verifier's stages.                                     *)
(***************************************************************************)
IsPrefix(p, q) == Len(p) <= Len(q) /\ \A i \in 1..Len(p) : p[i] = q[i]
LastStage == stagesRun[Len(stagesRun)]
\* the verifier, reached with a supported scheme-network pair, has answered
\* isValid=false
Rejected ==
    /\ fresp.kind = "verify" /\ ~fresp.IsValid
    /\ <<Reqs.Scheme, Reqs.Network>> \in fconfig.Supported

\* The reasons with which a stage can fail on the request being served; for
\* the stages that call the network, the messages they begin with.
StageReasons(stage) ==
    CASE stage = "signature" -> { verifySignature(Auth, Payload, Reqs) } \ { <<>> }
      [] stage = "balance" ->
           { <<m>> \o e : m \in {"invalid payment amount format",
                                 "failed to connect to network",
                                 "failed to call balanceOf", "insufficient balance"},
                          e \in {<<>>, <<"failed to connect to RPC">>,
                                 <<"unsupported network">>} }
      [] stage = "amount" -> { verifyAmount(Auth, Reqs) } \ { <<>> }
      [] stage = "time window" -> { verifyTimeWindow(Auth, now) : now \in Times } \ { <<>> }
      [] stage = "parameters" -> { verifyParameters(Auth, Reqs) } \ { <<>> }
      [] stage = "simulation" ->
           { r \in { simulateTransaction(Auth, Signature, [err |-> e], outcome) :
                       e \in {<<>>, <<"failed to connect to RPC">>,
                              <<"unsupported network">>},
                       outcome \in {"ok", "revert", "error"} } : r # <<>> }

StagePassed(stage) ==
    CASE stage = "signature" -> verifySignature(Auth, Payload, Reqs) = <<>>
      [] stage = "balance" -> SetString(Auth.Value).ok /\ Did("balanceOf")
      [] stage = "amount" -> verifyAmount(Auth, Reqs) = <<>>
      [] stage = "time window" -> \E now \in Times : verifyTimeWindow(Auth, now) = <<>>
      [] stage = "parameters" -> verifyParameters(Auth, Reqs) = <<>>
      [] stage = "simulation" -> Did("eth_call")

\* the stages run are the first stages of the fixed order, each but the last
\* has passed, and the network was called by no stage that did not run
InFixedOrder ==
    freq.endpoint = "verify"
      => /\ IsPrefix(stagesRun, SixStages)
         /\ \A i \in 1..(Len(stagesRun) - 1) : StagePassed(stagesRun[i])
         /\ (Did("dial") \/ Did("balanceOf")) => Ran("balance")
         /\ Did("eth_call") => Ran("simulation")
         /\ (fresp.kind = "verify" /\ fresp.IsValid)
              => /\ stagesRun = SixStages
                 /\ \A i \in 1..6 : StagePassed(SixStages[i])

RejectedByLastStage ==
    /\ fpc = "done"
    /\ fresp.InvalidReason \in StageReasons(LastStage)

\* C30 as stated: the stages run in the fixed order, isValid=true is returned
\* only when all six passed, and every isValid=false carries the reason of
\* the first failing stage, after which no stage runs and no RPC call is
\* made.
C30_FirstFailingStage ==
    /\ InFixedOrder
    /\ Rejected => (stagesRun # <<>> /\ RejectedByLastStage)

\* C30: the stages run in the fixed order, isValid=true is returned only
\* when all six passed, a failing stage's reason is returned with no later
\* stage run and no later RPC call made, and a payload rejected on entry
\* (scheme, missing signature, missing authorization) is answered with that
\* reason before any stage and any RPC call.
C30_StageOrder ==
    /\ InFixedOrder
    /\ (Rejected /\ stagesRun # <<>>) => RejectedByLastStage
    /\ (Rejected /\ stagesRun = <<>>)
         => /\ fresp.InvalidReason = verifyPayment(Payload)
            /\ fresp.InvalidReason # <<>>
            /\ rpcLog = <<>>

\* stage 3 rejects after the balance was read; the dry run is never made
C30_Witness ==
    /\ Rejected /\ fpc = "done"
    /\ stagesRun = <<"signature", "balance", "amount">>
    /\ Did("balanceOf") /\ ~Did("eth_call")

\* all six stages passed
AllSixPassed == fresp.kind = "verify" /\ fresp.IsValid /\ stagesRun = SixStages

\* a payload without authorization is rejected before stage 1
RejectedOnEntry ==
    /\ Rejected /\ stagesRun = <<>>
    /\ fresp.InvalidReason = <<"invalid authorization", "missing authorization">>

(***************************************************************************)
(* The order of a settlement.                                              *)
(***************************************************************************)
NotDial(o) == o # "dial"
SettleOps == SelectSeq(rpcLog, NotDial)
SettleOrder == <<"PendingNonceAt", "SuggestGasPrice", "EstimateGas", "SendTransaction">>
SettleFailed == fresp.kind = "settle" /\ ~fresp.Success
SettleSucceeds == fresp.kind = "settle" /\ fresp.Success

\* the RPC operations of a settlement are the first of the fixed order, a
\* success follows an accepted broadcast of the one signed transaction and
\* carries its hash, the network and the payer, and nothing follows the
\* broadcast
OrderAndSuccess ==
    freq.endpoint = "settle"
      => /\ IsPrefix(SettleOps, SettleOrder)
         /\ Len(broadcasts) <= 1
         /\ broadcasts # <<>> => (SettleOps = SettleOrder /\ broadcasts[1].signed)
         /\ SettleFailed => (fpc = "done" /\ fresp.ErrorReason # <<>>)
         /\ SettleSucceeds
              => /\ fpc = "done"
                 /\ SettleOps = SettleOrder
                 /\ Len(broadcasts) = 1
                 /\ fresp.Transaction = "0xtx"
                 /\ fresp.Network = Reqs.Network
                 /\ fresp.Payer = Auth.From

\* C34 as stated: the settlement order, the success response, and after
\* every failure nothing has been broadcast.
C34_FailureBroadcastsNothing ==
    /\ OrderAndSuccess
    /\ SettleFailed => broadcasts = <<>>

\* C34: settlement runs pending-nonce read, gas-price read and ceiling,
\* gas estimation, signing, broadcast; a failure returns success=false with
\* a reason, and nothing has been broadcast unless the failing step is the
\* broadcast call itself; success=true follows an accepted broadcast, at
\* most one transaction is broadcast, and the success response carries the
\* hash, requirements.network and authorization.from.
C34_SettleOrder ==
    /\ OrderAndSuccess
    /\ (SettleFailed /\ ~Did("SendTransaction")) => broadcasts = <<>>

\* the estimation failed after the gas price was accepted: nothing is sent
C34_Witness ==
    /\ SettleFailed /\ fpc = "done"
    /\ SettleOps = <<"PendingNonceAt", "SuggestGasPrice", "EstimateGas">>
    /\ broadcasts = <<>>

\* a settlement that succeeded
SettledOnce == SettleSucceeds /\ Len(broadcasts) = 1

\* the node took the transaction and the call failed all the same
BroadcastYetFailed == SettleFailed /\ Len(broadcasts) = 1

(***************************************************************************)
(* The time window.                                                        *)
(***************************************************************************)
TimeWindowPassed == Ran("time window") /\ ~(LastStage = "time window" /\ Rejected)

\* C37: the time-window stage accepts exactly when
\* validAfter <= now <= validBefore: both ends pass, validBefore + 1 fails
\* with "payment expired (valid before <validBefore>)", and a time before
\* validAfter fails.
C37_TimeWindowInclusive ==
    Ran("time window")
      => /\ clockRead \in Times
         /\ TimeWindowPassed <=> (Auth.ValidAfter <= clockRead /\ clockRead <= Auth.ValidBefore)
         /\ clockRead > Auth.ValidBefore
              => /\ fpc = "done" /\ Rejected
                 /\ fresp.InvalidReason
                      = <<"payment expired (valid before %d)", ItoA(Auth.ValidBefore)>>
         /\ clockRead < Auth.ValidAfter
              => /\ fpc = "done" /\ Rejected
                 /\ fresp.InvalidReason[1] = "payment not yet valid (valid after %d)"

\* the stage passes at now = validBefore
C37_Witness ==
    /\ TimeWindowPassed /\ clockRead = Auth.ValidBefore
    /\ Auth.ValidAfter < Auth.ValidBefore

\* the stage fails one second later, and passes at now = validAfter
ExpiredByOneSecond ==
    /\ Ran("time window") /\ ~TimeWindowPassed /\ clockRead = Auth.ValidBefore + 1
    /\ fresp.InvalidReason = <<"payment expired (valid before %d)", "7">>
PassedAtValidAfter == TimeWindowPassed /\ clockRead = Auth.ValidAfter

(***************************************************************************)
(* Configuration errors at request time.                                   *)
(***************************************************************************)
\* what Validate demands of the fields the facilitator reads while serving
PassesValidation(c) ==
    /\ c.Networks # {}
    /\ \A kind \in c.Supported : kind[1] # "" /\ kind[2] # "" /\ kind[2] \in c.Networks
    /\ c.MaxGasPrice # ""

\* every supported network resolves to a configured entry at request time
SupportedResolves ==
    (PassesValidation(fconfig) /\ <<Reqs.Scheme, Reqs.Network>> \in fconfig.Supported)
      => /\ ~Mentions(fresp.InvalidReason, "network not configured")
         /\ ~Mentions(fresp.ErrorReason, "network not configured")

\* C39: under a configuration that passes validation no request fails on
\* account of the configuration: the gas-price ceiling parses at settle
\* time, and every supported network resolves to a configured entry.
C39_NoConfigFailureAtRequest ==
    PassesValidation(fconfig)
      => /\ ~Mentions(fresp.ErrorReason, "failed to parse max gas price")
         /\ SupportedResolves

\* Validate has accepted a ceiling that is no decimal integer
AcceptedUnparsable ==
    /\ libCall = "validate" /\ cpc = "done"
    /\ validated.err = <<>> /\ ~SetString(cfgIn.MaxGasPrice).ok

(***************************************************************************)
(* The ceiling of the buffer.                                              *)
(***************************************************************************)
\* the body is within the ceiling, and with the overflow flag set nothing
\* has been flushed
WithinCeiling ==
    /\ buffered.maxSize > 0 => Len(buffered.body) <= buffered.maxSize
    /\ buffered.overflow => (buffered.maxSize > 0 /\ ~Has("flush"))

\* the write that sets the flag stores nothing, and the flag stays set
OverflowStep ==
    /\ (~buffered.overflow /\ buffered'.overflow) => buffered'.body = buffered.body
    /\ buffered.overflow => buffered'.overflow

\* C36: with maxBufferSize > 0 the buffered body never exceeds it; the
\* write that would exceed it stores nothing and sets the overflow flag;
\* the flag is never cleared, and once it is set the buffer is never
\* flushed, whatever smaller writes succeed afterwards.
C36_BufferCeiling == [](WithinCeiling) /\ [][OverflowStep]_vars

\* a request ended with the flag set and bytes in the buffer, unflushed
C36_Witness ==
    /\ Terminal /\ buffered.overflow
    /\ Len(buffered.body) > 0 /\ ~Has("flush")

(***************************************************************************)
(* The terminal outcomes of a protected request.                           *)
(***************************************************************************)
\* the client has received the one response the middleware produced
ReceivedProduced ==
    /\ Len(responses) = 1
    /\ responses[1].status \in {400, 402, 500, 502}
    /\ Sent.status = responses[1].status
    /\ Sent.body = responses[1].body

\* the client has received the buffered response, once
ReceivedFlushed ==
    /\ Has("flush")
    /\ Sent.status = buffered.status
    /\ Sent.body = buffered.body

\* C40: a request on a protected path whose facilitator calls and handler
\* have returned has reached exactly one terminal outcome, a response of
\* the middleware (402, 400, 502, 500) or the flush of the buffered
\* response, and the client's writer has received the status and the body
\* of that outcome, once.
C40_OneTerminalOutcome ==
    (Terminal /\ Protected)
      => /\ (Len(responses) # 0) # Has("flush")
         /\ Len(responses) # 0 => ReceivedProduced
         /\ Has("flush") => ReceivedFlushed

\* the outcomes reached before the response writer is replaced do arrive
OutcomeBeforeBuffering ==
    (Terminal /\ Protected /\ ctxWriter = "writermem") => ReceivedProduced

\* the middleware answered 500, 502 or 402 after the handler ran, and the
\* client holds a 200
ProducedButNotReceived ==
    /\ Terminal /\ Protected /\ ctxWriter = "buffered"
    /\ Len(responses) = 1 /\ Sent.status = 200 /\ Sent.body = <<>>

(***************************************************************************)
(* A generated payment before the verifier.                                *)
(***************************************************************************)
Generated == libCall = "generate" /\ cpc = "done" /\ generated.err = <<>>

\* the verifier's signature, amount, time-window and parameter stages on
\* the generated payload, against the requirements it was generated for and
\* at the time of generation
GeneratedPasses ==
    LET r == genIn.requirements
        payload == [Payload |-> [signature |-> generated.sig]]
    IN /\ verifySignature(generated.auth, payload, r) = <<>>
       /\ verifyAmount(generated.auth, r) = <<>>
       /\ verifyTimeWindow(generated.auth, genIn.now) = <<>>
       /\ verifyParameters(generated.auth, r) = <<>>

\* C35: the payload GeneratePayment produces for requirements r passes the
\* verifier's signature, amount, time-window and parameter-match stages
\* against the same r at generation time, whatever extra.name and
\* extra.version are and in whatever letter case payTo is written.
C35_GeneratedPassesVerifier == Generated => GeneratedPasses

\* it does for the domain "USDC" version "2" with payTo in checksum spelling
GeneratedPassesForUsdcChecksum ==
    (/\ Generated
     /\ genIn.requirements.Extra = [name |-> "USDC", version |-> "2"]
     /\ genIn.requirements.PayTo[2] = "checksum")
      => GeneratedPasses

\* the signature stage refuses the payload generated for another domain name
GeneratedForOtherDomain ==
    /\ Generated /\ genIn.requirements.Extra.name = "USD Coin"
    /\ verifySignature(generated.auth, [Payload |-> [signature |-> generated.sig]],
                       genIn.requirements) = <<"signature mismatch">>

\* the parameter stage refuses the payload generated for a lower-case payTo
GeneratedForLowerCasePayTo ==
    /\ Generated /\ genIn.requirements.PayTo = Merchant
    /\ verifyParameters(generated.auth, genIn.requirements) = <<"recipient mismatch">>

(***************************************************************************)
(* Cancellation.                                                           *)
(***************************************************************************)
\* C28: once the inbound request has been cancelled while its verify or
\* settle call is in flight, the facilitator performs no further RPC
\* operation for it: the operations performed stay those performed at the
\* moment of the cancellation.
C28_CancellationStopsCalls ==
    inboundCancelledAt # -1 => Len(rpcLog) = inboundCancelledAt

\* A transfer is broadcast for a request cancelled before the settler's
\* first RPC operation.
BroadcastAfterCancellation ==
    /\ inboundCancelledAt = 0 /\ freq.endpoint = "settle"
    /\ Len(broadcasts) = 1

====
